---- MODULE Spec2Model ----
(***************************************************************************)
(* Streaming response pipeline of the interview-prep assistant             *)
(* (src/src/app.py, src/src/redis_store.py).                               *)
(*                                                                         *)
(* One session (request.sid) is modelled.  Every socket event of that      *)
(* session runs in its own greenlet ("turn"); greenlets are scheduled      *)
(* cooperatively, so a step of the model is the code a greenlet runs       *)
(* between two suspension points: eventlet.sleep, the read of the next     *)
(* model token, the synthesis call, the transcription call, the call of    *)
(* chat_with_gpt and the model call of summarize_old_messages.             *)
(* The session starts in voice mode (handle_connect sets voice_mode =      *)
(* True); toggle_voice_mode switches it.  In the specification of the     *)
(* turns the stores are the in-process ones (REDIS_URL not configured);    *)
(* the specifications of the message history, of the session store and of  *)
(* the rate limiter have the Redis backend as well.                        *)
(*                                                                         *)
(* Text is a sequence of characters.  A character is the string that holds *)
(* it, or, where a TLA+ string cannot hold it, the string that names its   *)
(* code point ("U+000B" is the vertical tab).                              *)
(***************************************************************************)
EXTENDS Integers, Sequences, FiniteSets, Bags, TLC

\* ---------------------------------------------------------------- bounds
MaxTokens == 4      \* longest token stream a model call delivers
MaxTurns == 3       \* socket events of the session that start a turn
MaxEventTurns == 2  \* the same, where every kind of socket event is handled
MaxCalls == 4       \* calls of the rate limiter
MaxTicks == 2       \* advances of the clock
MaxRpm == 3         \* largest per-minute budget tried
MaxRph == 2         \* largest binding per-hour budget tried
MaxRedisCalls == 2  \* calls of the Redis-backed rate limiter per instance
MaxCacheOps == 4    \* calls of the synthesis cache
MaxCacheSize == 2   \* largest capacity of the synthesis cache tried
MinThreshold == 3   \* smallest compression threshold tried
MaxToneCalls == 3   \* calls of generate_speech with a tone
MaxSessionCap == 2  \* largest MAX_SESSIONS tried
MaxSessionTicks == 2    \* how often the clock of the connections advances
MaxBudget == 1      \* rate-limit budgets of the connections
MaxEvents == 4      \* socket events the connections send
MaxWaiting == 2     \* handlers of the connections that are suspended at a time
MaxHistEvents == 2   \* socket events of the session whose history is followed

\* ------------------------------------------------------ program constants
STREAMING_FIRST_CHUNK_SENTENCES == 1
STREAMING_SUBSEQUENT_CHUNK_SENTENCES == 2
MIN_BOUNDARY_LEN == 10

sentence_enders == {".", "!", "?"}

\* the characters str.strip() and str.rstrip() remove, those for which
\* str.isspace() holds: space, tab, line feed, carriage return and form feed,
\* and, by code point, the ones a TLA+ string cannot hold
Whitespace ==
    {" ", "\t", "\n", "\r", "\f",
     "U+000B", "U+001C", "U+001D", "U+001E", "U+001F", "U+0085", "U+00A0",
     "U+1680", "U+2000", "U+2001", "U+2002", "U+2003", "U+2004", "U+2005",
     "U+2006", "U+2007", "U+2008", "U+2009", "U+200A", "U+2028", "U+2029",
     "U+202F", "U+205F", "U+3000"}

\* ----------------------------------------------------------- text helpers
RECURSIVE RStrip(_)
\* str.rstrip(): drop trailing whitespace
RStrip(s) ==
    IF s = <<>> THEN <<>>
    ELSE IF s[Len(s)] \in Whitespace THEN RStrip(SubSeq(s, 1, Len(s) - 1))
    ELSE s

RECURSIVE LStrip(_)
\* str.lstrip(): drop leading whitespace
LStrip(s) ==
    IF s = <<>> THEN <<>>
    ELSE IF s[1] \in Whitespace THEN LStrip(Tail(s))
    ELSE s

\* str.strip()
Strip(s) == LStrip(RStrip(s))

RECURSIVE Flatten(_)
\* concatenation of a sequence of texts
Flatten(ss) == IF ss = <<>> THEN <<>> ELSE Head(ss) \o Flatten(Tail(ss))

\* ------------------------------------------------------------ token inputs
Word9 == <<"a", "a", "a", "a", "a", "a", "a", "a", "a">>
Sent10 == Word9 \o <<".">>
Sent11 == <<"a">> \o Word9 \o <<".">>

\* The fragments a model stream may deliver (delta.content), the empty one
\* included.
Fragments == {<<>>, <<"a">>, <<".">>, <<" ">>, <<"\n">>, <<"U+000B">>, Sent10, Sent11}

RECURSIVE SeqsUpTo(_, _)
SeqsUpTo(S, n) ==
    IF n = 0 THEN {<<>>}
    ELSE LET shorter == SeqsUpTo(S, n - 1)
         IN shorter \cup {Append(q, x) : q \in {p \in shorter : Len(p) = n - 1}, x \in S}

\* every token stream of at most MaxTokens fragments
AllScripts == SeqsUpTo(Fragments, MaxTokens)

\* the token stream of the replies in the multi-turn specification
GenScripts == {<<Sent11, <<"a">>>>}

\* ------------------------------------------------------------------ state
Sids == {"s1", "s2"}
TheSid == "s1"          \* the session whose socket events are modelled
Turns == 1 .. MaxTurns
NoToken == 0            \* active_generations has no entry for the session
\* Python's None
None == "None"
\* no dict of a conversation
NoId == -1

VARIABLES
    gen,                \* per greenlet: position in its handler, its conv and the locals of stream_chat_and_speak
    cancelled,          \* per greenlet: the 'cancelled' flag of the token it created
    active_generations, \* the token registered for the session (the turn that created it) or NoToken
    processing_lock,    \* processing_lock.get(sid)
    connected,          \* the socket of the session is open
    emitted,            \* per greenlet of a start_*, message or request_tts event: the events it has emitted, in order
    overlapped,         \* history, per turn: the generations streaming when the turn was issued and still running
    missedCancel,       \* history: generations that streamed when a cancelling event was handled and were left unflagged
    clock,              \* time.time()
    rate_limit_memory,  \* _rate_limit_memory: sid -> timestamps
    rpm,                \* per-minute budget passed to check_rate_limit
    rph,                \* per-hour budget passed to check_rate_limit
    calls,              \* history: the calls of the rate limiter made by CheckRateLimit, in order
    ticks,              \* history: how often the clock was advanced
    memory_store,       \* redis_store._memory_store: sid -> session data (the dict of the conversation)
    redis_available,    \* redis_store._redis_available, set by init_redis
    redis_up,           \* the Redis server answers (otherwise every Redis call raises)
    redis_sessions,     \* the session keys held by Redis: sid -> session data
    storeLog,           \* history: the last call of the session store
    written,            \* history: sid -> the data last set and not deleted since
    redis_minute,       \* the sorted set rl:m:<sid> of the session: its scores
    redis_hour,         \* the sorted set rl:h:<sid> of the session: its scores
    inst,               \* per instance: its position in _check_rate_limit_redis and its locals
    admitted,           \* history: the timestamps of the admitted Redis-limited calls
    tts_cache_memory,   \* redis_store._tts_cache_memory, in insertion order
    max_size,           \* TTS_CACHE_MAX_SIZE
    speech,             \* per session: its position in generate_speech and its arguments
    cacheLog,           \* history: the last two cache and synthesis calls completed
    put_triples,        \* history: the triples store_tts_cache was called with
    delivered,          \* history: the last two error outcomes sent to a client
    dicts,              \* the dicts of the conversation of the session that the store or a handler refers to
    record_id,          \* the dict the store holds for the session
    conv,               \* per handler: its position in its event handler, the conv it holds and what it has done
    redis_history,      \* the session store is Redis (get_session returns a copy)
    compression_threshold,  \* MEMORY_COMPRESSION_THRESHOLD
    max_sessions,       \* MAX_SESSIONS
    clients,            \* per socket id: the state of its connection, its processing_lock and its suspended handlers
    events              \* the number of socket events the connections have sent

genVars == <<gen, cancelled, active_generations, processing_lock, connected, emitted, overlapped, missedCancel>>
rateVars == <<clock, rate_limit_memory, rpm, rph, calls, ticks>>
storeRest == <<redis_available, redis_up, redis_sessions, storeLog, written>>
redisVars == <<redis_minute, redis_hour, inst, admitted>>
cacheVars == <<tts_cache_memory, max_size, speech, cacheLog, put_triples>>
errVars == <<delivered>>
histVars == <<dicts, record_id, conv, redis_history, compression_threshold>>
sessVars == <<max_sessions, clients, events>>
auxVars == <<storeRest, redisVars, cacheVars, errVars, histVars, sessVars>>
vars == <<genVars, rateVars, memory_store, auxVars>>

IdleGen ==
    [pc |-> "idle", kind |-> "none", script |-> <<>>, pos |-> 0,
     full_text |-> <<>>, buffer |-> <<>>, sentence_count_in_buffer |-> 0,
     first_chunk_sent |-> FALSE, chunk_index |-> 0, pending |-> <<>>,
     outcome |-> "none", conv |-> [id |-> -1, voice_mode |-> FALSE]]

Event(type, text, index) == [type |-> type, text |-> text, index |-> index]

\* the payload the synthesis service returns for a text
Audio(text) == <<"audio">> \o text

\* -------------------------------------------------------------- chunker
\* variant: a boundary is accepted at MIN_BOUNDARY_LEN characters already
IsBoundaryAtMinLen(buffer) ==
    LET stripped == RStrip(buffer)
    IN /\ stripped # <<>>
       /\ stripped[Len(stripped)] \in sentence_enders
       /\ Len(stripped) >= MIN_BOUNDARY_LEN

\* app.py 1043-1044: the buffer ends at a sentence boundary
IsBoundary(buffer) ==
    LET stripped == RStrip(buffer)
    IN /\ stripped # <<>>
       /\ stripped[Len(stripped)] \in sentence_enders
       /\ Len(stripped) > MIN_BOUNDARY_LEN

\* app.py 1049
SentencesNeeded(r) ==
    IF ~r.first_chunk_sent THEN STREAMING_FIRST_CHUNK_SENTENCES
    ELSE STREAMING_SUBSEQUENT_CHUNK_SENTENCES

\* app.py 1037-1045: one delivered fragment is added to full_text and buffer
FeedToken(r, token) ==
    IF token = <<>> THEN r
    ELSE LET buf == r.buffer \o token
         IN [r EXCEPT !.full_text = r.full_text \o token,
                      !.buffer = buf,
                      !.sentence_count_in_buffer =
                          IF IsBoundary(buf) THEN @ + 1 ELSE @]

\* app.py 1044, 1051: the fragment just fed releases a chunk
ReleasesChunk(r, token) ==
    /\ token # <<>>
    /\ IsBoundary(r.buffer \o token)
    /\ FeedToken(r, token).sentence_count_in_buffer >= SentencesNeeded(r)

\* app.py 972: flush_tts_chunk returns at once
FlushSkipped(text_chunk, c) == Strip(text_chunk) = <<>> \/ c

\* variant: the chunk index is not advanced
AfterFlushSameIndex(r) == [r EXCEPT !.first_chunk_sent = TRUE, !.pending = <<>>]

\* app.py 984-986, 997-999, 1017-1018: bookkeeping at the end of flush_tts_chunk
AfterFlush(r) == [r EXCEPT !.chunk_index = @ + 1, !.first_chunk_sent = TRUE, !.pending = <<>>]

\* variant: the audio is emitted without looking at the cancellation flag
AudioEventsIgnoringCancel(r, ok, c) ==
    IF ok THEN <<Event("audio_chunk", Audio(r.pending), r.chunk_index)>>
    ELSE <<>>

\* app.py 996-1013: the events flush_tts_chunk emits once generate_speech is back
AudioEvents(r, ok, c) ==
    IF ok /\ ~c THEN <<Event("audio_chunk", Audio(r.pending), r.chunk_index)>>
    ELSE <<>>

\* variant: stream_complete counts one chunk too many
CompleteEventsOffByOne(r, c) ==
    IF ~c THEN <<Event("stream_complete", r.full_text, r.chunk_index + 1)>>
    ELSE <<>>

\* app.py 1070-1077
CompleteEvents(r, c) ==
    IF ~c THEN <<Event("stream_complete", r.full_text, r.chunk_index)>>
    ELSE <<>>

\* ------------------------------------------------- cancellation registry
\* variant: the flags of the tokens that are not registered are cleared
CancelFlagsOfRegisteredOnly(c, ag) == [u \in DOMAIN c |-> u = ag]

\* app.py 117-118: the flag of the registered token is set
CancelFlags(c, ag) == IF ag # NoToken THEN [c EXCEPT ![ag] = TRUE] ELSE c

\* variant: the registry is left as it is
KeepRegistry(ag, t) == ag

\* app.py 1085: finally: active_generations.pop(sid, None)
PopRegistry(ag, t) == NoToken

\* variant: the lock stays as it is
KeepLock(lock, r) == lock

\* app.py 1106: finally: processing_lock.pop(sid, None); the start_* handlers hold no lock
ReleaseLock(lock, r) == IF r.kind \in {"text", "audio"} THEN FALSE ELSE lock

\* ------------------------------------------------------------ rate limiter
MINUTE == 60
HOUR == 3600

\* tracker['timestamps'] of a session, [] when the session has no tracker yet
Timestamps(m, sid) == IF sid \in DOMAIN m THEN m[sid] ELSE <<>>

\* redis_store.py 332: timestamps of the last hour
PruneHour(ts, now) == SelectSeq(ts, LAMBDA x : now - x < HOUR)

\* variant: a timestamp exactly MINUTE old still counts
RecentMinuteInclusive(ts, now) == SelectSeq(PruneHour(ts, now), LAMBDA x : now - x <= MINUTE)

\* redis_store.py 334
RecentMinute(ts, now) == SelectSeq(PruneHour(ts, now), LAMBDA x : now - x < MINUTE)

\* redis_store.py 335-341: the value _check_rate_limit_memory returns
RateAllowed(ts, now, perMinute, perHour) ==
    /\ ~(Len(RecentMinute(ts, now)) >= perMinute)
    /\ ~(Len(PruneHour(ts, now)) >= perHour)

\* variant: a refused call is recorded too
RateRecordedAlways(ts, now, perMinute, perHour) == Append(PruneHour(ts, now), now)

\* redis_store.py 332-340: the timestamps the tracker holds after the call
RateRecorded(ts, now, perMinute, perHour) ==
    IF RateAllowed(ts, now, perMinute, perHour)
    THEN Append(PruneHour(ts, now), now)
    ELSE PruneHour(ts, now)

\* redis_store.py 328-340: _rate_limit_memory after the call for sid
RateMemoryAfter(m, sid, now, perMinute, perHour) ==
    [s \in DOMAIN m \cup {sid} |->
        IF s = sid THEN RateRecorded(Timestamps(m, sid), now, perMinute, perHour)
        ELSE m[s]]

\* redis_store.py 344-352: clear_rate_limit
ClearRateLimit(m, sid) == [s \in DOMAIN m \ {sid} |-> m[s]]

Call(sid, now, before, ok, after) ==
    [sid |-> sid, now |-> now, before |-> before, ok |-> ok, after |-> after]

\* the history entry of a check_rate_limit call made now for sid
CallNow(m, sid) ==
    Call(sid, clock, Timestamps(m, sid),
         RateAllowed(Timestamps(m, sid), clock, rpm, rph),
         RateRecorded(Timestamps(m, sid), clock, rpm, rph))

\* ------------------------------------------- rate limiter backed by Redis
\* a sorted-set key: the scores of its members and the time it expires at
\* (0: no expiry set).  A member is str(now), so equal timestamps are one member.
NoKey == [scores |-> {}, expire |-> 0]

\* the members of a key as the server sees them at time now
Live(key, now) == IF key.expire # 0 /\ now >= key.expire THEN {} ELSE key.scores

\* redis_store.py 300-301: zremrangebyscore(key, 0, now - window)
ZRemRangeByScore(key, at, now, window) ==
    IF Live(key, at) = {} THEN NoKey
    ELSE [key EXCEPT !.scores = {x \in Live(key, at) : ~(x <= now - window)}]

\* redis_store.py 316-319: zadd(key, {str(now): now}); expire(key, window)
ZAddExpire(key, at, now, window) ==
    [scores |-> Live(key, at) \cup {now}, expire |-> at + window]

\* variant: a count equal to the budget still passes
RedisAllowedAtBudget(minute_count, hour_count, perMinute, perHour) ==
    ~(minute_count > perMinute \/ hour_count > perHour)

\* redis_store.py 311: the budget test on the counts read by the first pipeline
RedisAllowed(minute_count, hour_count, perMinute, perHour) ==
    ~(minute_count >= perMinute \/ hour_count >= perHour)

IdleInst == [pc |-> "idle", now |-> 0, minute_count |-> 0, hour_count |-> 0, n |-> 0]

\* -------------------------------------------------------- synthesis cache
\* hashlib.md5(...).hexdigest(): a digest of the string, taken to be free of
\* collisions
MD5Hex(raw) == <<"md5">> \o raw

\* app.py 137-140: the key of a (text, voice, mode) triple
get_tts_cache_key(text, voice, mode) == MD5Hex(text \o <<"|">> \o voice \o <<"|">> \o mode)

KeyOf(triple) == get_tts_cache_key(triple[1], triple[2], triple[3])

\* base64.b64encode(...).decode('utf-8'): the encoding of no bytes is the empty
\* string
B64Encode(content) == IF content = <<>> THEN <<>> ELSE <<"b64">> \o content
\* base64.b64decode
B64Decode(audio_b64) == IF audio_b64 = <<>> THEN <<>> ELSE Tail(audio_b64)

\* the truth value Python gives a string or None
Truthy(x) == x # None /\ x # <<>>

\* redis_store.py 229: key in _tts_cache_memory
HasKey(cache, key) == \E i \in 1 .. Len(cache) : cache[i].key = key

IndexOf(cache, key) == CHOOSE i \in 1 .. Len(cache) : cache[i].key = key

\* redis_store.py 229-233: what get_tts_cache returns from the in-memory cache
GetTTSCacheResult(cache, key) ==
    IF HasKey(cache, key) THEN cache[IndexOf(cache, key)].audio_b64 ELSE None

\* redis_store.py 229-230: a hit refreshes last_used
GetTTSCacheAfter(cache, key, now) ==
    IF HasKey(cache, key) THEN [cache EXCEPT ![IndexOf(cache, key)].last_used = now]
    ELSE cache

\* variant: the entry used last is chosen
NewestIndex(cache) ==
    CHOOSE i \in 1 .. Len(cache) :
        \A j \in 1 .. Len(cache) : cache[i].last_used >= cache[j].last_used

\* redis_store.py 251: min(_tts_cache_memory, key=last_used), the first entry in
\* insertion order among those with the smallest last_used
OldestIndex(cache) ==
    CHOOSE i \in 1 .. Len(cache) :
        \A j \in 1 .. Len(cache) :
            /\ cache[i].last_used <= cache[j].last_used
            /\ j < i => cache[j].last_used > cache[i].last_used

RemoveAt(cache, i) == SubSeq(cache, 1, i - 1) \o SubSeq(cache, i + 1, Len(cache))

\* redis_store.py 250: the cache is at capacity
AtCapacity(cache, max) == Len(cache) >= max

\* redis_store.py 251: min() of an empty dict raises ValueError
SetRaises(cache, max) == AtCapacity(cache, max) /\ cache = <<>>

\* redis_store.py 250-258: the in-memory cache after set_tts_cache
SetTTSCacheAfter(cache, key, audio_b64, max, now) ==
    IF SetRaises(cache, max) THEN cache
    ELSE LET c1 == IF AtCapacity(cache, max) THEN RemoveAt(cache, OldestIndex(cache)) ELSE cache
             e == [key |-> key, audio_b64 |-> audio_b64, last_used |-> now]
         IN IF HasKey(c1, key) THEN [c1 EXCEPT ![IndexOf(c1, key)] = e]
            ELSE Append(c1, e)

\* app.py 143-150: what get_cached_tts returns
GetCachedTTSResult(cache, triple) ==
    LET cached == GetTTSCacheResult(cache, KeyOf(triple))
    IN IF Truthy(cached) THEN cached ELSE None

\* how many cache and synthesis calls have completed
Completed(log) == IF log = <<>> THEN 0 ELSE log[Len(log)].seq

\* an entry of the history of cache and synthesis calls: the seq-th call to
\* complete; started: how many calls had completed when it began
CacheCall(log, op, sid, triple, payload, result, raised, before, after, started, now) ==
    [seq |-> Completed(log) + 1, op |-> op, sid |-> sid, triple |-> triple,
     payload |-> payload, result |-> result, raised |-> raised,
     before |-> before, after |-> after, started |-> started, now |-> now]

\* the history keeps the last two calls
Logged(log, e) == IF Len(log) < 2 THEN Append(log, e) ELSE <<log[2], e>>

IdleSpeech == [pc |-> "idle", triple |-> <<>>, started |-> 0]

\* ---------------------------------------------------------- session store
\* the value of a session record; the conversation content is not modelled
SessionData == {"d1", "d2"}

\* redis_store.py 88: _memory_store.get(sid)
MemGet(m, sid) == IF sid \in DOMAIN m THEN m[sid] ELSE None

\* redis_store.py 105: _memory_store[sid] = session_data
MemSet(m, sid, d) == [s \in DOMAIN m \cup {sid} |-> IF s = sid THEN d ELSE m[s]]

\* redis_store.py 115: _memory_store.pop(sid, None)
MemPop(m, sid) == [s \in DOMAIN m \ {sid} |-> m[s]]

\* what a call of the store gives: its return value, _memory_store and the
\* Redis keys after it
StoreResult(result, m, rs) == [result |-> result, mem |-> m, redis |-> rs]

\* variant: an error of Redis is not answered from the in-process map
get_session_without_fallback(av, up, rs, m, sid) ==
    IF av /\ up THEN StoreResult(MemGet(rs, sid), m, rs)
    ELSE IF av THEN StoreResult(None, m, rs)
    ELSE StoreResult(MemGet(m, sid), m, rs)

\* redis_store.py 71-88: get_session.  av: _redis_available, up: the server
\* answers, rs: the session keys of Redis, m: _memory_store.  The stored JSON
\* text decodes to the data that was encoded.
get_session(av, up, rs, m, sid) ==
    IF av /\ up THEN StoreResult(MemGet(rs, sid), m, rs)
    ELSE StoreResult(MemGet(m, sid), m, rs)

\* redis_store.py 91-105: set_session
set_session(av, up, rs, m, sid, d) ==
    IF av /\ up THEN StoreResult(None, m, MemSet(rs, sid, d))
    ELSE StoreResult(None, MemSet(m, sid, d), rs)

\* redis_store.py 108-115: delete_session
delete_session(av, up, rs, m, sid) ==
    IF av /\ up THEN StoreResult(None, MemPop(m, sid), MemPop(rs, sid))
    ELSE StoreResult(None, MemPop(m, sid), rs)

\* redis_store.py 118-125: session_exists
session_exists(av, up, rs, m, sid) ==
    IF av /\ up THEN StoreResult(sid \in DOMAIN rs, m, rs)
    ELSE StoreResult(sid \in DOMAIN m, m, rs)

\* redis_store.py 167-176: get_session_count
get_session_count(av, up, rs, m) ==
    IF av /\ up THEN StoreResult(Cardinality(DOMAIN rs), m, rs)
    ELSE StoreResult(Cardinality(DOMAIN m), m, rs)

\* an entry of the history of store calls
StoreCall(op, sid, d, av, up, before, r) ==
    [op |-> op, sid |-> sid, data |-> d, available |-> av, up |-> up,
     mem_before |-> before, result |-> r.result, mem_after |-> r.mem]

\* redis_store.py 108-115: delete_session with Redis not configured
DeleteSession(m, sid) == MemPop(m, sid)

\* the dict of a conversation: which dict it is, and its 'voice_mode'.  With
\* Redis not configured get_conversation returns the dict the store holds, so
\* every handler that got it before the record was deleted shares it.
ConvObject(id, voice_mode) == [id |-> id, voice_mode |-> voice_mode]

\* the handler holds no conversation
NoConv == ConvObject(-1, FALSE)

\* the dicts the store or a handler under way refers to
LiveIds(m) == {m[s].id : s \in DOMAIN m} \cup {gen[t].conv.id : t \in Turns}

\* a dict created now is none of those still referred to
FreshId(m) ==
    CHOOSE n \in 0 .. MaxTurns + 1 :
        /\ n \notin LiveIds(m)
        /\ \A k \in 0 .. n - 1 : k \in LiveIds(m)

\* app.py 670-686, redis_store.py 128-144: get_conversation creates the record
\* of the session, in voice mode, when the store has none
GetConversation(m, sid) ==
    IF sid \in DOMAIN m THEN m ELSE MemSet(m, sid, ConvObject(FreshId(m), TRUE))

\* app.py 689-691: save_conversation(sid, conv) with Redis not configured
SaveConversation(m, sid, session_data) == MemSet(m, sid, session_data)

\* ------------------------------------------- stream_chat_and_speak, by step
\* the greenlet is inside stream_chat_and_speak: its token is registered at 956
\* and popped at 1085; "stalled" is a read of the stream that never returns
Streaming(t) == gen[t].pc \in {"read", "stalled", "yield1", "tts", "yield2", "tts_final"}

Emit(t, evs) == emitted' = [emitted EXCEPT ![t] = @ \o evs]

\* the call that produced the reply has returned full_text or raised: its other
\* locals are gone, and so are those of the handler once it has ended
Returned(r, outcome) ==
    [IdleGen EXCEPT !.pc = "done", !.kind = r.kind, !.script = r.script,
                    !.full_text = r.full_text, !.outcome = outcome]

\* a generation that has ended no longer overlaps any turn
Forget(t) == overlapped' = [u \in Turns |-> overlapped[u] \ {t}]

\* app.py 1179-1210 and 1106, 1792-1803: the caller has the reply.  A message
\* turn whose history has grown past the threshold (summarizes) waits in the
\* model call of summarize_old_messages, the lock still as it is and the
\* conversation not saved; otherwise the conversation is saved and the lock
\* released.  The start_* handlers do not compress and hold no lock.
AfterReply(t, r, outcome, summarizes) ==
    IF r.kind \in {"text", "audio"} /\ summarizes
    THEN /\ gen' = [gen EXCEPT ![t] =
                 [Returned(r, outcome) EXCEPT !.pc = "summarize", !.conv = r.conv]]
         /\ UNCHANGED <<processing_lock, memory_store>>
    ELSE /\ gen' = [gen EXCEPT ![t] = Returned(r, outcome)]
         /\ processing_lock' = ReleaseLock(processing_lock, r)
         /\ memory_store' = SaveConversation(memory_store, TheSid, r.conv)

\* app.py 1069-1085: the generation returns.  r: the locals at the return,
\* evs: events emitted earlier in the same step.
Finish(t, r, evs, summarizes) ==
    /\ Emit(t, evs \o CompleteEvents(r, cancelled[t]))
    /\ Forget(t)
    /\ active_generations' = PopRegistry(active_generations, t)
    /\ AfterReply(t, r, IF cancelled[t] THEN "cancelled" ELSE "completed", summarizes)

\* app.py 1065-1067: the loop is left (stream end or break); the rest of the
\* buffer goes to flush_tts_chunk, which emits the text and calls generate_speech.
ExitLoop(t, r, summarizes) ==
    IF ~FlushSkipped(r.buffer, cancelled[t])
    THEN /\ Emit(t, <<Event("text_chunk", Strip(r.buffer), r.chunk_index)>>)
         /\ gen' = [gen EXCEPT ![t] = [r EXCEPT !.pc = "tts_final", !.pending = Strip(r.buffer)]]
         /\ UNCHANGED <<active_generations, processing_lock, overlapped, memory_store>>
    ELSE Finish(t, r, <<>>, summarizes)

\* app.py 1031-1053: the stream delivers its next fragment, or ends
LLMRead(t, summarizes) ==
    /\ gen[t].pc = "read"
    /\ LET r == gen[t]
       IN IF r.pos = Len(r.script) THEN ExitLoop(t, r, summarizes)
          ELSE LET token == r.script[r.pos + 1]
                   r1 == [r EXCEPT !.pos = @ + 1]
               IN IF cancelled[t] THEN ExitLoop(t, r1, summarizes)
                  ELSE /\ gen' = [gen EXCEPT ![t] =
                                [FeedToken(r1, token) EXCEPT
                                    !.pc = IF ReleasesChunk(r1, token) THEN "yield1" ELSE "read"]]
                       /\ UNCHANGED <<active_generations, processing_lock, emitted, overlapped, memory_store>>
    /\ UNCHANGED <<cancelled, connected, missedCancel, rateVars, auxVars>>

\* app.py 1081-1085, 1212-1216, 1805-1808: the model call or the stream raises;
\* the caller emits its generic status and saves nothing
LLMRaise(t) ==
    /\ gen[t].pc = "read"
    /\ Emit(t, <<Event("status", <<>>, 0)>>)
    /\ gen' = [gen EXCEPT ![t] = Returned(@, "failed")]
    /\ Forget(t)
    /\ active_generations' = PopRegistry(active_generations, t)
    /\ processing_lock' = ReleaseLock(processing_lock, gen[t])
    /\ UNCHANGED <<cancelled, connected, missedCancel, memory_store, rateVars, auxVars>>

\* app.py 1053-1056, 968-990: back from eventlet.sleep(0); the chunk is flushed
\* up to the synthesis call
ResumeBeforeFlush(t, summarizes) ==
    /\ gen[t].pc = "yield1"
    /\ LET r == gen[t]
       IN IF cancelled[t] THEN ExitLoop(t, r, summarizes)
          ELSE IF FlushSkipped(r.buffer, cancelled[t])
          THEN /\ gen' = [gen EXCEPT ![t] =
                        [r EXCEPT !.buffer = <<>>, !.sentence_count_in_buffer = 0, !.pc = "yield2"]]
               /\ UNCHANGED <<active_generations, processing_lock, emitted, overlapped, memory_store>>
          ELSE /\ Emit(t, <<Event("text_chunk", Strip(r.buffer), r.chunk_index)>>)
               /\ gen' = [gen EXCEPT ![t] = [r EXCEPT !.pc = "tts", !.pending = Strip(r.buffer)]]
               /\ UNCHANGED <<active_generations, processing_lock, overlapped, memory_store>>
    /\ UNCHANGED <<cancelled, connected, missedCancel, rateVars, auxVars>>

\* app.py 990-1018, 1057-1060: generate_speech returns (ok) or raises (~ok)
\* inside the loop
TTSReturn(t, ok) ==
    /\ gen[t].pc = "tts"
    /\ Emit(t, AudioEvents(gen[t], ok, cancelled[t]))
    /\ gen' = [gen EXCEPT ![t] =
                 [AfterFlush(@) EXCEPT !.buffer = <<>>, !.sentence_count_in_buffer = 0,
                                       !.pc = "yield2"]]
    /\ UNCHANGED <<active_generations, processing_lock, overlapped, memory_store>>
    /\ UNCHANGED <<cancelled, connected, missedCancel, rateVars, auxVars>>

\* app.py 1060-1063: back from the second eventlet.sleep(0)
ResumeAfterFlush(t, summarizes) ==
    /\ gen[t].pc = "yield2"
    /\ IF cancelled[t] THEN ExitLoop(t, gen[t], summarizes)
       ELSE /\ gen' = [gen EXCEPT ![t].pc = "read"]
            /\ UNCHANGED <<active_generations, processing_lock, emitted, overlapped, memory_store>>
    /\ UNCHANGED <<cancelled, connected, missedCancel, rateVars, auxVars>>

\* app.py 990-1018, 1067-1085: generate_speech returns or raises in the final flush
TTSFinalReturn(t, ok, summarizes) ==
    /\ gen[t].pc = "tts_final"
    /\ Finish(t, AfterFlush(gen[t]), AudioEvents(gen[t], ok, cancelled[t]), summarizes)
    /\ UNCHANGED <<cancelled, connected, missedCancel, rateVars, auxVars>>

\* app.py 1199-1210, 1106: summarize_old_messages is back (with the summary of
\* the model or, the call having raised, with its own extract); the
\* conversation is saved and the lock released
SummaryReturn(t) ==
    /\ gen[t].pc = "summarize"
    /\ gen' = [gen EXCEPT ![t] = [@ EXCEPT !.pc = "done", !.conv = NoConv]]
    /\ processing_lock' = ReleaseLock(processing_lock, gen[t])
    /\ memory_store' = SaveConversation(memory_store, TheSid, gen[t].conv)
    /\ UNCHANGED <<cancelled, active_generations, connected, emitted, overlapped,
                   missedCancel, rateVars, auxVars>>

\* app.py 1172-1176, 1797-1801: text mode: chat_with_gpt returns the reply,
\* which is sent as one text_response, or raises
ChatReturn(t, ok, reply, summarizes) ==
    /\ gen[t].pc = "chat"
    /\ IF ok
       THEN /\ Emit(t, <<Event("text_response", reply, 0)>>)
            /\ AfterReply(t, [gen[t] EXCEPT !.full_text = reply], "replied", summarizes)
       ELSE /\ Emit(t, <<Event("status", <<>>, 0)>>)
            /\ gen' = [gen EXCEPT ![t] = Returned(@, "chat_failed")]
            /\ processing_lock' = ReleaseLock(processing_lock, gen[t])
            /\ UNCHANGED memory_store
    /\ UNCHANGED <<cancelled, active_generations, connected, overlapped, missedCancel,
                   rateVars, auxVars>>

\* ----------------------------------------------------------- socket handlers
RATE_LIMIT_REQUESTS_PER_MINUTE == 15
TTS_CACHE_MAX_SIZE == 200
MAX_SESSIONS == 200
SESSION_TIMEOUT == 3600
REDIS_SESSION_TTL == 7200
MEMORY_COMPRESSION_THRESHOLD == 21
RATE_LIMIT_REQUESTS_PER_HOUR == 200

\* events of one session are numbered in the order they are handled
Arrives(t) ==
    /\ connected
    /\ gen[t].pc = "idle"
    /\ t > 1 => gen[t - 1].pc # "idle"

\* the locals of a handler that has just been entered
NewTurn(kind) == [IdleGen EXCEPT !.kind = kind]

\* the locals of a handler that has called get_conversation; m: the store after
\* the call
WithConv(kind, m) == [NewTurn(kind) EXCEPT !.conv = m[TheSid]]

\* turn t is issued: the generations streaming at that moment are noted
Issued(t) == overlapped' = [overlapped EXCEPT ![t] = {o \in Turns : Streaming(o)}]

\* app.py 160-169: check_rate_limit(sid) is called
RateChecked ==
    /\ rate_limit_memory' = RateMemoryAfter(rate_limit_memory, TheSid, clock, rpm, rph)
    /\ UNCHANGED <<clock, rpm, rph, calls, ticks>>

AllowedNow == RateAllowed(Timestamps(rate_limit_memory, TheSid), clock, rpm, rph)

\* a cancelling event (cancel_stream, interrupted message, reset, disconnect)
\* is handled while these generations stream
AskCancel(asked) ==
    missedCancel' = IF asked THEN missedCancel \cup {o \in Turns : Streaming(o) /\ ~cancelled'[o]}
                    ELSE missedCancel

\* app.py 955-956, 1023: stream_chat_and_speak registers a fresh token and
\* opens the model stream.  b: the locals of the handler, c: the flags after
\* the earlier part of the step.
StartStream(t, b, c, scripts) ==
    /\ \E script \in scripts :
          gen' = [gen EXCEPT ![t] = [b EXCEPT !.pc = "read", !.script = script]]
    /\ cancelled' = [c EXCEPT ![t] = FALSE]
    /\ active_generations' = t

\* app.py 1174, 1798: text mode; the handler calls chat_with_gpt: no token is
\* registered
StartChat(t, b, c) ==
    /\ gen' = [gen EXCEPT ![t] = [b EXCEPT !.pc = "chat"]]
    /\ cancelled' = c
    /\ UNCHANGED active_generations

\* app.py 1167-1174, 1789-1798: the reply is produced by the streaming pipeline
\* in voice mode and by chat_with_gpt in text mode
StartReply(t, b, c, scripts) ==
    IF b.conv.voice_mode THEN StartStream(t, b, c, scripts) ELSE StartChat(t, b, c)

\* a handler returns without having started a reply
Returns(t, b, outcome, evs) ==
    /\ gen' = [gen EXCEPT ![t] = [b EXCEPT !.pc = "done", !.outcome = outcome, !.conv = NoConv]]
    /\ Emit(t, evs)

\* app.py 1101-1133, 1167: the lock is taken and _process_and_respond_inner
\* admits the turn, or rejects it with one status: over the rate limit, or the
\* text matches a prompt-injection pattern (injected).  evs: the events emitted
\* earlier in the step.  (The text is not empty: both callers have tested it.)
AdmitTurn(t, b, c, scripts, injected, evs) ==
    /\ RateChecked
    /\ IF ~AllowedNow \/ injected
       THEN /\ Returns(t, b, "rejected", evs \o <<Event("status", <<>>, 0)>>)
            /\ cancelled' = c
            /\ processing_lock' = FALSE
            /\ UNCHANGED active_generations
       ELSE /\ StartReply(t, b, c, scripts)
            /\ Emit(t, evs)
            /\ processing_lock' = TRUE

\* app.py 1089-1106: process_and_respond up to its first suspension point.
\* b: the locals with the conversation get_conversation gave; c, l: the flags
\* and the lock after the earlier part of the step.
ProcessAndRespond(t, b, c, l, scripts, injected, evs) ==
    IF l
    THEN /\ cancelled' = CancelFlags(c, active_generations)
         /\ processing_lock' = FALSE
         /\ gen' = [gen EXCEPT ![t] = [b EXCEPT !.pc = "sleep"]]
         /\ Emit(t, evs)
         /\ UNCHANGED <<active_generations, rateVars>>
    ELSE AdmitTurn(t, b, c, scripts, injected, evs)

\* app.py 1100-1104: back from eventlet.sleep(0.05)
WakeFromSleep(t, scripts, injected) ==
    /\ gen[t].pc = "sleep"
    /\ AdmitTurn(t, gen[t], cancelled, scripts, injected, <<>>)
    /\ UNCHANGED <<connected, overlapped, missedCancel, memory_store, auxVars>>

\* app.py 1764-1808, 1811-1856, 1859-1892: start_interview, start_language_test,
\* start_helpdesk.  supported: the language of start_language_test is one of
\* SUPPORTED_LANGUAGES (the other two events name no language).
HandleStart(t, supported, scripts) ==
    /\ Arrives(t)
    /\ Issued(t)
    /\ IF ~supported
       THEN /\ Returns(t, NewTurn("start"), "rejected", <<Event("status", <<>>, 0)>>)
            /\ UNCHANGED <<cancelled, active_generations, memory_store>>
       ELSE LET m == GetConversation(memory_store, TheSid)
            IN /\ StartReply(t, WithConv("start", m), cancelled, scripts)
               /\ memory_store' = m
               /\ UNCHANGED emitted
    /\ UNCHANGED <<processing_lock, connected, missedCancel, rateVars, auxVars>>

\* app.py 2003-2046: text_message
HandleTextMessage(t, interrupted, text_ok, scripts, injected) ==
    /\ Arrives(t)
    /\ LET c == IF interrupted THEN CancelFlags(cancelled, active_generations) ELSE cancelled
           l == IF interrupted THEN FALSE ELSE processing_lock
           m == GetConversation(memory_store, TheSid)
       IN /\ IF ~text_ok
             THEN /\ Returns(t, NewTurn("text"), "dropped", <<>>)
                  /\ cancelled' = c
                  /\ processing_lock' = l
                  /\ UNCHANGED <<active_generations, rateVars>>
             ELSE ProcessAndRespond(t, WithConv("text", m), c, l, scripts, injected, <<>>)
          /\ memory_store' = m
    /\ AskCancel(interrupted)
    /\ Issued(t)
    /\ UNCHANGED <<connected, auxVars>>

\* app.py 1895-1959: audio_message up to the transcription call
HandleAudioMessage(t, interrupted, audio_ok) ==
    /\ Arrives(t)
    /\ RateChecked
    /\ IF ~AllowedNow \/ ~audio_ok
       THEN /\ Returns(t, NewTurn("audio"), "rejected", <<Event("status", <<>>, 0)>>)
            /\ UNCHANGED <<cancelled, processing_lock, missedCancel>>
       ELSE /\ gen' = [gen EXCEPT ![t] = [NewTurn("audio") EXCEPT !.pc = "stt"]]
            /\ cancelled' = IF interrupted THEN CancelFlags(cancelled, active_generations) ELSE cancelled
            /\ processing_lock' = IF interrupted THEN FALSE ELSE processing_lock
            /\ AskCancel(interrupted)
            /\ UNCHANGED emitted
    /\ Issued(t)
    /\ memory_store' = GetConversation(memory_store, TheSid)
    /\ UNCHANGED <<active_generations, connected, auxVars>>

\* what transcribe_audio gives: it raises, or returns an empty text, a text the
\* noise filter drops (app.py 1976-1986), or a text that is used
Transcriptions == {"raised", "empty", "noise", "heard"}

\* app.py 1959-1996: the transcription is back.  A text that is not empty is
\* sent to the client as user_transcription before it is filtered; a turn that
\* goes no further gets one status.
TranscriptionReturn(t, transcription, scripts, injected) ==
    /\ gen[t].pc = "stt"
    /\ LET heard == IF transcription \in {"noise", "heard"}
                    THEN <<Event("user_transcription", <<>>, 0)>> ELSE <<>>
           m == GetConversation(memory_store, TheSid)
       IN IF transcription # "heard"
          THEN /\ Returns(t, gen[t], "rejected", heard \o <<Event("status", <<>>, 0)>>)
               /\ UNCHANGED <<cancelled, processing_lock, active_generations, memory_store, rateVars>>
          ELSE /\ ProcessAndRespond(t, [gen[t] EXCEPT !.conv = m[TheSid]], cancelled,
                                    processing_lock, scripts, injected, heard)
               /\ memory_store' = m
    /\ UNCHANGED <<connected, overlapped, missedCancel, auxVars>>

\* app.py 2090-2099: cancel_stream
HandleCancelStream ==
    /\ connected
    /\ cancelled' = CancelFlags(cancelled, active_generations)
    /\ processing_lock' = FALSE
    /\ AskCancel(TRUE)
    /\ memory_store' = GetConversation(memory_store, TheSid)
    /\ UNCHANGED <<gen, active_generations, connected, emitted, overlapped, rateVars, auxVars>>

\* app.py 2106-2120: toggle_voice_mode sets the flag in the dict of the session,
\* which the handlers under way that got the same dict share
HandleToggleVoiceMode(voice_on) ==
    /\ connected
    /\ LET m == GetConversation(memory_store, TheSid)
           toggled == [m[TheSid] EXCEPT !.voice_mode = voice_on]
       IN /\ memory_store' = SaveConversation(m, TheSid, toggled)
          /\ gen' = [t \in Turns |->
                        IF gen[t].conv.id = toggled.id THEN [gen[t] EXCEPT !.conv = toggled]
                        ELSE gen[t]]
    /\ UNCHANGED <<cancelled, active_generations, processing_lock, connected, emitted,
                   overlapped, missedCancel, rateVars, auxVars>>

\* app.py 2123-2141: request_tts up to the call of generate_speech.  The rate
\* limiter is asked first; text_ok: the text is not empty and not over 5000
\* characters.  No token is registered and no lock taken.
HandleRequestTTS(t, text_ok) ==
    /\ Arrives(t)
    /\ Issued(t)
    /\ RateChecked
    /\ IF ~AllowedNow
       THEN Returns(t, NewTurn("request_tts"), "rejected", <<Event("status", <<>>, 0)>>)
       ELSE IF ~text_ok
       THEN Returns(t, NewTurn("request_tts"), "dropped", <<>>)
       ELSE /\ gen' = [gen EXCEPT ![t] = [NewTurn("request_tts") EXCEPT !.pc = "speech"]]
            /\ UNCHANGED emitted
    /\ memory_store' = GetConversation(memory_store, TheSid)
    /\ UNCHANGED <<cancelled, active_generations, processing_lock, connected, missedCancel,
                   auxVars>>

\* app.py 2141-2152: generate_speech is back: the audio is sent as tts_audio,
\* or, the call having raised, a status
RequestTTSReturn(t, ok) ==
    /\ gen[t].pc = "speech"
    /\ IF ok THEN Returns(t, gen[t], "spoken", <<Event("tts_audio", <<>>, 0)>>)
       ELSE Returns(t, gen[t], "speech_failed", <<Event("status", <<>>, 0)>>)
    /\ UNCHANGED <<cancelled, active_generations, processing_lock, connected, overlapped,
                   missedCancel, memory_store, rateVars, auxVars>>

\* app.py 2155-2170: get_session_info
HandleGetSessionInfo ==
    /\ connected
    /\ memory_store' = GetConversation(memory_store, TheSid)
    /\ UNCHANGED <<gen, cancelled, active_generations, processing_lock, connected, emitted,
                   overlapped, missedCancel, rateVars, auxVars>>

\* app.py 2173-2226: realtime_log.  text_ok: the event has a text; summarizes:
\* the history has grown past the threshold and the handler waits in the
\* model call of summarize_old_messages (2216) before it saves the
\* conversation.  The rate limiter is not asked, no token is registered, no
\* lock taken and nothing is sent to the client.
HandleRealtimeLog(t, text_ok, summarizes) ==
    /\ Arrives(t)
    /\ Issued(t)
    /\ LET m == GetConversation(memory_store, TheSid)
           b == WithConv("realtime_log", m)
       IN IF ~text_ok
          THEN /\ Returns(t, b, "dropped", <<>>)
               /\ memory_store' = m
          ELSE IF summarizes
          THEN /\ gen' = [gen EXCEPT ![t] = [b EXCEPT !.pc = "summarize", !.outcome = "logged"]]
               /\ memory_store' = m
               /\ UNCHANGED emitted
          ELSE /\ Returns(t, b, "logged", <<>>)
               /\ memory_store' = SaveConversation(m, TheSid, m[TheSid])
    /\ UNCHANGED <<cancelled, active_generations, processing_lock, connected, missedCancel,
                   rateVars, auxVars>>

\* app.py 2049-2087: reset; requested_mode: the event names a mode, and a new
\* record is made for it
HandleReset(requested_mode) ==
    /\ connected
    /\ cancelled' = CancelFlags(cancelled, active_generations)
    /\ processing_lock' = FALSE
    /\ rate_limit_memory' = ClearRateLimit(rate_limit_memory, TheSid)
    /\ active_generations' = NoToken
    /\ AskCancel(TRUE)
    /\ memory_store' = LET m == GetConversation(DeleteSession(memory_store, TheSid), TheSid)
                       IN IF requested_mode THEN SaveConversation(m, TheSid, m[TheSid])
                          ELSE DeleteSession(memory_store, TheSid)
    /\ UNCHANGED <<gen, connected, emitted, overlapped, clock, rpm, rph, calls, ticks, auxVars>>

\* app.py 1733-1761: disconnect
HandleDisconnect ==
    /\ connected
    /\ cancelled' = CancelFlags(cancelled, active_generations)
    /\ processing_lock' = FALSE
    /\ rate_limit_memory' = ClearRateLimit(rate_limit_memory, TheSid)
    /\ active_generations' = NoToken
    /\ connected' = FALSE
    /\ AskCancel(TRUE)
    /\ memory_store' = DeleteSession(memory_store, TheSid)
    /\ UNCHANGED <<gen, emitted, overlapped, clock, rpm, rph, calls, ticks, auxVars>>

\* ---------------------------------------------------------- specifications
InitGen ==
    /\ gen = [t \in Turns |-> IdleGen]
    /\ cancelled = [t \in Turns |-> FALSE]
    /\ active_generations = NoToken
    /\ processing_lock = FALSE
    /\ connected = TRUE
    /\ emitted = [t \in Turns |-> <<>>]
    /\ overlapped = [t \in Turns |-> {}]
    /\ missedCancel = {}

InitRateIdle ==
    /\ clock = 0
    /\ rate_limit_memory = [s \in {} |-> <<>>]
    /\ rpm = RATE_LIMIT_REQUESTS_PER_MINUTE
    /\ rph = RATE_LIMIT_REQUESTS_PER_HOUR
    /\ calls = <<>>
    /\ ticks = 0

\* handle_connect (app.py 1717-1730) has stored the record of the session, in
\* voice mode
InitSession == memory_store = MemSet([s \in {} |-> None], TheSid, ConvObject(0, TRUE))

\* Redis is not configured
InitStoreIdle ==
    /\ redis_available = FALSE
    /\ redis_up = FALSE
    /\ redis_sessions = [s \in {} |-> None]
    /\ storeLog = <<>>
    /\ written = [s \in {} |-> None]

InitRedisIdle ==
    /\ redis_minute = NoKey
    /\ redis_hour = NoKey
    /\ inst = [i \in {} |-> None]
    /\ admitted = {}

InitCacheIdle ==
    /\ tts_cache_memory = <<>>
    /\ max_size = TTS_CACHE_MAX_SIZE
    /\ speech = [s \in {} |-> None]
    /\ cacheLog = <<>>
    /\ put_triples = {}

InitErrIdle == delivered = <<>>

\* no turn is handled by the history model
InitHistIdle ==
    /\ dicts = [i \in {} |-> None]
    /\ record_id = NoId
    /\ conv = [t \in {} |-> None]
    /\ redis_history = FALSE
    /\ compression_threshold = MEMORY_COMPRESSION_THRESHOLD

\* no connection is handled by the model of the connections
InitSessIdle ==
    /\ max_sessions = MAX_SESSIONS
    /\ events = 0
    /\ clients = [s \in {} |-> None]

InitAux ==
    InitStoreIdle /\ InitRedisIdle /\ InitCacheIdle /\ InitErrIdle /\ InitHistIdle /\ InitSessIdle

Init == InitGen /\ InitRateIdle /\ InitSession /\ InitAux

\* the steps of the generation of turn t; oks: the outcomes of the synthesis
\* call (TRUE: it returns audio, FALSE: it raises); sums: whether the history
\* of the caller is long enough for the summarizer to be called
StreamStep(t, oks, sums) ==
    \/ \E summarizes \in sums : LLMRead(t, summarizes)
    \/ LLMRaise(t)
    \/ \E summarizes \in sums : ResumeBeforeFlush(t, summarizes)
    \/ \E ok \in oks : TTSReturn(t, ok)
    \/ \E summarizes \in sums : ResumeAfterFlush(t, summarizes)
    \/ \E ok \in oks, summarizes \in sums : TTSFinalReturn(t, ok, summarizes)

\* the reply chat_with_gpt gives in the multi-turn specifications
ChatReplies == {Sent11}

\* the turns of the specification of all socket events
AllEventTurns == 1 .. MaxEventTurns

\* every socket event of one session, interleaved: start_*, text_message,
\* audio_message, request_tts, toggle_voice_mode, get_session_info,
\* realtime_log, cancel_stream, reset, disconnect
Next ==
    \/ \E t \in AllEventTurns, supported \in BOOLEAN : HandleStart(t, supported, GenScripts)
    \/ \E t \in AllEventTurns, interrupted \in BOOLEAN, text_ok \in BOOLEAN, injected \in BOOLEAN :
          HandleTextMessage(t, interrupted, text_ok, GenScripts, injected)
    \/ \E t \in AllEventTurns, interrupted \in BOOLEAN, audio_ok \in BOOLEAN :
          HandleAudioMessage(t, interrupted, audio_ok)
    \/ \E t \in AllEventTurns, transcription \in Transcriptions, injected \in BOOLEAN :
          TranscriptionReturn(t, transcription, GenScripts, injected)
    \/ \E t \in AllEventTurns, injected \in BOOLEAN : WakeFromSleep(t, GenScripts, injected)
    \/ \E t \in AllEventTurns : StreamStep(t, {TRUE}, BOOLEAN)
    \/ \E t \in AllEventTurns : SummaryReturn(t)
    \/ \E t \in AllEventTurns, ok \in BOOLEAN, reply \in ChatReplies, summarizes \in BOOLEAN :
          ChatReturn(t, ok, reply, summarizes)
    \/ \E t \in AllEventTurns, text_ok \in BOOLEAN : HandleRequestTTS(t, text_ok)
    \/ \E t \in AllEventTurns, ok \in BOOLEAN : RequestTTSReturn(t, ok)
    \/ \E voice_on \in BOOLEAN : HandleToggleVoiceMode(voice_on)
    \/ HandleGetSessionInfo
    \/ \E t \in AllEventTurns, text_ok \in BOOLEAN, summarizes \in BOOLEAN :
          HandleRealtimeLog(t, text_ok, summarizes)
    \/ HandleCancelStream
    \/ \E requested_mode \in BOOLEAN : HandleReset(requested_mode)
    \/ HandleDisconnect

Spec == Init /\ [][Next]_vars

\* text_message, audio_message and cancel_stream events only
NextMessages ==
    \/ \E t \in Turns, interrupted \in BOOLEAN :
          HandleTextMessage(t, interrupted, TRUE, GenScripts, FALSE)
    \/ \E t \in Turns, interrupted \in BOOLEAN :
          HandleAudioMessage(t, interrupted, TRUE)
    \/ \E t \in Turns : TranscriptionReturn(t, "heard", GenScripts, FALSE)
    \/ \E t \in Turns : WakeFromSleep(t, GenScripts, FALSE)
    \/ \E t \in Turns : StreamStep(t, {TRUE}, BOOLEAN)
    \/ \E t \in Turns : SummaryReturn(t)
    \/ HandleCancelStream

SpecMessages == Init /\ [][NextMessages]_vars

\* text_message, audio_message and request_tts events, valid or not, under
\* small per-minute budgets
InitAdmit ==
    /\ InitGen
    /\ InitSession
    /\ InitAux
    /\ clock = 0
    /\ rate_limit_memory = [s \in {} |-> <<>>]
    /\ rpm \in 0 .. MaxRpm
    /\ rph = RATE_LIMIT_REQUESTS_PER_HOUR
    /\ calls = <<>>
    /\ ticks = 0

NextAdmit ==
    \/ \E t \in Turns, interrupted \in BOOLEAN, text_ok \in BOOLEAN, injected \in BOOLEAN :
          HandleTextMessage(t, interrupted, text_ok, GenScripts, injected)
    \/ \E t \in Turns, interrupted \in BOOLEAN, audio_ok \in BOOLEAN :
          HandleAudioMessage(t, interrupted, audio_ok)
    \/ \E t \in Turns, transcription \in Transcriptions, injected \in BOOLEAN :
          TranscriptionReturn(t, transcription, GenScripts, injected)
    \/ \E t \in Turns, injected \in BOOLEAN : WakeFromSleep(t, GenScripts, injected)
    \/ \E t \in Turns, text_ok \in BOOLEAN : HandleRequestTTS(t, text_ok)
    \/ \E t \in Turns, ok \in BOOLEAN : RequestTTSReturn(t, ok)
    \/ \E t \in Turns : StreamStep(t, {TRUE}, BOOLEAN)
    \/ \E t \in Turns : SummaryReturn(t)

SpecAdmit == InitAdmit /\ [][NextAdmit]_vars

\* one generation, over every token stream, with failing synthesis calls and
\* cancel_stream events
NextStream ==
    \/ HandleStart(1, TRUE, AllScripts)
    \/ StreamStep(1, BOOLEAN, {FALSE})
    \/ HandleCancelStream

SpecStream == Init /\ [][NextStream]_vars

\* app.py 1031: the stream delivers no further fragment and never ends; the
\* for loop waits in its read, where no flag is tested and no timeout set
LLMStall(t) ==
    /\ gen[t].pc = "read"
    /\ gen' = [gen EXCEPT ![t].pc = "stalled"]
    /\ UNCHANGED <<cancelled, active_generations, processing_lock, connected, emitted,
                   overlapped, missedCancel, memory_store, rateVars, auxVars>>

\* the steps of turn 1 once it has been admitted
StallTurnStep == StreamStep(1, BOOLEAN, BOOLEAN) \/ SummaryReturn(1)

\* the generation of one text message, over every token stream, whose stream
\* may stall, with cancel_stream events
NextStall ==
    \/ \E interrupted \in BOOLEAN : HandleTextMessage(1, interrupted, TRUE, AllScripts, FALSE)
    \/ StallTurnStep
    \/ LLMStall(1)
    \/ HandleCancelStream

\* a greenlet that can run is run, and a call that is answered returns
SpecStall == Init /\ [][NextStall]_vars /\ WF_vars(StallTurnStep)

\* --------------------------------------------- the rate limiter on its own
ClockSteps == {1, MINUTE - 1, HOUR - MINUTE + 1}

\* time passes
Tick(d) ==
    /\ ticks < MaxTicks
    /\ clock' = clock + d
    /\ ticks' = ticks + 1
    /\ UNCHANGED <<rate_limit_memory, rpm, rph, calls, genVars, memory_store, auxVars>>

\* redis_store.py 279-287, 325-341: check_rate_limit(sid, rpm, rph) with Redis
\* not available
CheckRateLimit(sid) ==
    /\ Len(calls) < MaxCalls
    /\ rate_limit_memory' = RateMemoryAfter(rate_limit_memory, sid, clock, rpm, rph)
    /\ calls' = Append(calls, CallNow(rate_limit_memory, sid))
    /\ UNCHANGED <<clock, rpm, rph, ticks, genVars, memory_store, auxVars>>

\* --------------------------------------------- the session store on its own
\* a call of the store has returned r
Stored(op, sid, d, r) ==
    /\ memory_store' = r.mem
    /\ redis_sessions' = r.redis
    /\ storeLog' = <<StoreCall(op, sid, d, redis_available, redis_up, memory_store, r)>>
    /\ UNCHANGED <<redis_available, redis_up, rateVars, errVars, sessVars, histVars, genVars, redisVars, cacheVars>>

StoreGet(sid) ==
    /\ Stored("get", sid, None,
              get_session(redis_available, redis_up, redis_sessions, memory_store, sid))
    /\ UNCHANGED written

StoreSet(sid, d) ==
    /\ Stored("set", sid, d,
              set_session(redis_available, redis_up, redis_sessions, memory_store, sid, d))
    /\ written' = MemSet(written, sid, d)

StoreDelete(sid) ==
    /\ Stored("delete", sid, None,
              delete_session(redis_available, redis_up, redis_sessions, memory_store, sid))
    /\ written' = MemPop(written, sid)

StoreExists(sid) ==
    /\ Stored("exists", sid, None,
              session_exists(redis_available, redis_up, redis_sessions, memory_store, sid))
    /\ UNCHANGED written

StoreCount ==
    /\ Stored("count", "none", None,
              get_session_count(redis_available, redis_up, redis_sessions, memory_store))
    /\ UNCHANGED written

\* the Redis server becomes unreachable, or reachable again with the keys it had
RedisFlip ==
    /\ redis_available
    /\ redis_up' = ~redis_up
    /\ UNCHANGED <<redis_available, redis_sessions, storeLog, written, memory_store,
                   rateVars, errVars, sessVars, histVars, genVars, redisVars, cacheVars>>

\* init_redis (redis_store.py 23-53): Redis is not configured, or it answered
\* the ping
InitStore ==
    /\ InitGen
    /\ InitErrIdle
    /\ InitHistIdle
    /\ InitSessIdle
    /\ InitRateIdle
    /\ InitRedisIdle
    /\ InitCacheIdle
    /\ memory_store = [s \in {} |-> None]
    /\ redis_available \in BOOLEAN
    /\ redis_up = redis_available
    /\ redis_sessions = [s \in {} |-> None]
    /\ storeLog = <<>>
    /\ written = [s \in {} |-> None]

NextStore ==
    \/ \E sid \in Sids : StoreGet(sid)
    \/ \E sid \in Sids, d \in SessionData : StoreSet(sid, d)
    \/ \E sid \in Sids : StoreDelete(sid)
    \/ \E sid \in Sids : StoreExists(sid)
    \/ StoreCount
    \/ RedisFlip

SpecStore == InitStore /\ [][NextStore]_vars

\* ------------------------------------------- the message history of a session
\* the messages of a conversation: the system prompt of a mode, the message of
\* the user in turn t, the answer of turn t. The second component of a system
\* message is the set of what its content was made from: the prompt of the
\* mode or the name of an instruction the helpdesk mode inserts, and the
\* messages the summaries appended to it were made from.
INTERVIEW_SYSTEM_PROMPT == <<"system", {<<"interview", 0>>}>>
LANGUAGE_SYSTEM_PROMPT == <<"system", {<<"language", 0>>}>>
IT_HELPDESK_SYSTEM_PROMPT == <<"system", {<<"helpdesk", 0>>}>>
UserMsg(t) == <<"user", t>>
AssistantMsg(t) == <<"assistant", t>>
\* app.py 1155, 1157
SmallTalkMsg == <<"system", {<<"small talk", 0>>}>>
CheckinMsg == <<"system", {<<"check-in", 0>>}>>

\* the roles a realtime_log event names
LogRoles == {"user", "assistant"}

\* app.py 2199: the message handler t of a realtime_log event appends
LogMsg(role, t) == <<role, t>>

\* app.py 1780, 1826, 1864, 1910-1918, 2021-2029, 2074-2082, 2192-2197: the
\* system prompt a handler sets for a mode
SystemPrompt(mode) ==
    IF mode = "helpdesk" THEN IT_HELPDESK_SYSTEM_PROMPT
    ELSE IF mode = "language" THEN LANGUAGE_SYSTEM_PROMPT
    ELSE INTERVIEW_SYSTEM_PROMPT

\* the modes a start_* event starts
StartModes == {"interview", "language", "helpdesk"}

\* the dict of a conversation: its 'messages', 'exchange_count', 'mode' and
\* 'voice_mode'
Dict(ms, count, mode, voice_mode) ==
    [messages |-> ms, exchange_count |-> count, mode |-> mode, voice_mode |-> voice_mode]

\* app.py 670-683, 1717-1729: the defaults of get_conversation and the record
\* handle_connect stores
NewDict == Dict(<<>>, 0, None, TRUE)

\* the socket events of the session, each with its handler, numbered in the
\* order they are handled
HistEvents == 1 .. MaxHistEvents

\* the record Redis holds for the session: the JSON text of the conv last
\* saved. The dicts of the handlers are numbered from 1.
RedisId == 0

\* the session store: the dicts referred to, and the one the store holds for
\* the session (NoId: it has no record)
Store(ds, st) == [dicts |-> ds, record_id |-> st]
TheStore == Store(dicts, record_id)

\* dict i has the value d
Put(ds, i, d) == [j \in DOMAIN ds \cup {i} |-> IF j = i THEN d ELSE ds[j]]

\* a dict created now is none of those still referred to
HistFreshId ==
    CHOOSE n \in 1 .. MaxHistEvents + 2 :
        /\ n \notin DOMAIN dicts
        /\ \A k \in 1 .. n - 1 : k \in DOMAIN dicts

\* app.py 670-686, redis_store.py 71-88, 128-144: get_conversation(sid): the
\* dict of the record, which is created from the defaults when the store has
\* none. Without Redis it is the dict _memory_store holds; with Redis it is a
\* copy json.loads makes for the caller.
HistGetConversation(S, fresh) ==
    IF S.record_id = NoId
    THEN IF redis_history
         THEN [store |-> Store(Put(Put(S.dicts, RedisId, NewDict), fresh, NewDict), RedisId),
               id |-> fresh]
         ELSE [store |-> Store(Put(S.dicts, fresh, NewDict), fresh), id |-> fresh]
    ELSE IF redis_history
         THEN [store |-> Store(Put(S.dicts, fresh, S.dicts[S.record_id]), S.record_id), id |-> fresh]
         ELSE [store |-> S, id |-> S.record_id]

\* app.py 689-691, redis_store.py 91-105: save_conversation(sid, conv): with
\* Redis the JSON text of the dict replaces the record, without Redis the dict
\* becomes the record
HistSaveConversation(S, id) ==
    IF redis_history THEN Store(Put(S.dicts, RedisId, S.dicts[id]), RedisId)
    ELSE Store(S.dicts, id)

\* redis_store.py 108-115: delete_session(sid)
HistDeleteSession(S) == Store(S.dicts, NoId)

\* a handler: its position, the event it handles, the dict it holds, the calls
\* it has made of the services and of get_cancellation_token, the status
\* events it has emitted, how it ended, and the history it had when its reply
\* was appended (of which the slices of the compression are taken)
IdleConv ==
    [pc |-> "idle", kind |-> "none", id |-> NoId, calls |-> <<>>, status |-> 0,
     outcome |-> "none", seen |-> <<>>]

\* the handler of an event that has just arrived
Entered(kind) == [IdleConv EXCEPT !.kind = kind]

\* the handler returns; status: it emits a status event before
Ended(h, outcome, status) ==
    [h EXCEPT !.pc = "done", !.id = NoId, !.outcome = outcome,
              !.status = IF status THEN @ + 1 ELSE @]

\* the state a step leaves: the handlers cv and the store S, with the dicts
\* that neither the store nor a handler under way refers to dropped
Commit(S, cv) ==
    /\ conv' = cv
    /\ record_id' = S.record_id
    /\ dicts' = [i \in ({S.record_id} \cup {cv[t].id : t \in HistEvents}) \ {NoId} |-> S.dicts[i]]

\* the messages and the exchange_count of the record of the session
messages == IF record_id = NoId THEN <<>> ELSE dicts[record_id].messages
exchange_count == IF record_id = NoId THEN 0 ELSE dicts[record_id].exchange_count

\* app.py 1907-1920, 2018-2030: a conv without mode gets the mode the event
\* names, interview when it names none of helpdesk and language, and the
\* system prompt of the mode as its only message
AutoInit(d, requested_mode) ==
    IF d.mode # None THEN d
    ELSE LET mode == IF requested_mode \in {"helpdesk", "language"} THEN requested_mode
                     ELSE "interview"
         IN [d EXCEPT !.mode = mode, !.messages = <<SystemPrompt(mode)>>]

\* variant: the message of the user is appended before the turn is admitted
EnteredConvAppendFirst(d, t, ok) ==
    [d EXCEPT !.messages = Append(@, UserMsg(t)), !.exchange_count = @ + 1]

\* app.py 1111-1133: the conv once _process_and_respond_inner has admitted
\* (ok) or rejected the turn: the message of the user is appended and the
\* exchange counted after the three tests
EnteredConv(d, t, ok) ==
    IF ok THEN [d EXCEPT !.messages = Append(@, UserMsg(t)), !.exchange_count = @ + 1]
    ELSE d

\* app.py 1141-1157: the instruction the helpdesk mode inserts after the
\* message of the user, by the exchange_count the message has given
Injected(in_helpdesk, count) ==
    IF in_helpdesk /\ count % 5 = 0 THEN <<SmallTalkMsg>>
    ELSE IF in_helpdesk /\ count % 7 = 0 THEN <<CheckinMsg>>
    ELSE <<>>

\* app.py 705, 724: how many of the removed messages the excerpt handed to the
\* summarizer holds, and how many the summary made without it
EXCERPT_MESSAGES == 12
FALLBACK_MESSAGES == 8

\* old_text[-n:]
LastOf(seq, n) == SubSeq(seq, IF Len(seq) > n THEN Len(seq) - n + 1 ELSE 1, Len(seq))

\* app.py 698-703: the user and assistant messages among the given ones
OldText(old) == SelectSeq(old, LAMBDA m : m[1] \in {"user", "assistant"})

\* app.py 705: the excerpt the summarizer is called with
ConversationExcerpt(old) == LastOf(OldText(old), EXCERPT_MESSAGES)

\* app.py 695-724: summarize_old_messages(messages), as the set of messages the
\* summary was made from; the empty set is the empty string returned for at
\* most one message. llm_ok: the summarizer answered.
summarize_old_messages(old, llm_ok) ==
    IF Len(old) <= 1 THEN {}
    ELSE LET fed == IF llm_ok THEN ConversationExcerpt(old)
                    ELSE LastOf(OldText(old), FALLBACK_MESSAGES)
         IN {fed[i] : i \in 1 .. Len(fed)}

\* app.py 1195-1196: conv['messages'][1:-(compression_threshold - 1)] and
\* conv['messages'][-(compression_threshold - 1):], for a history longer than a
\* threshold of at least 2
OldMessages(ms, th) == SubSeq(ms, 2, Len(ms) - (th - 1))
RecentMessages(ms, th) == SubSeq(ms, Len(ms) - (th - 1) + 1, Len(ms))

\* system_msg['content'], as the set of what it was made from: the first
\* message of a history is taken for its system message, whatever its role
Content(m) == IF m[1] = "system" THEN m[2] ELSE {m}

\* app.py 1199-1207: the history assigned once the summary is there
Compressed(system_msg, summary, recent) ==
    IF summary # {}
    THEN <<<<"system", Content(system_msg) \cup summary>>>> \o recent
    ELSE <<system_msg>> \o recent

\* app.py 1193-1194: the history is compressed when it is longer than the
\* threshold
NeedsCompression(ms, th) == Len(ms) > th

\* app.py 1198: summarize_old_messages calls the summarizer
CallsSummarizer(ms, th) == NeedsCompression(ms, th) /\ Len(OldMessages(ms, th)) > 1

\* app.py 1192-1207: the history after the compression
Compress(ms, th, llm_ok) ==
    IF NeedsCompression(ms, th)
    THEN Compressed(ms[1], summarize_old_messages(OldMessages(ms, th), llm_ok),
                    RecentMessages(ms, th))
    ELSE ms

\* the variables the steps of the history model leave alone
histRest ==
    <<gen, emitted, overlapped, missedCancel, rateVars, memory_store, storeRest,
      redisVars, cacheVars, errVars, sessVars, redis_history, compression_threshold>>

\* events of the session are numbered in the order they are handled
HistArrives(t) ==
    /\ connected
    /\ conv[t].pc = "idle"
    /\ t > 1 => conv[t - 1].pc # "idle"

\* app.py 1167-1176, 1786-1801, 955-956, 1023: the reply to the messages of
\* dict h.id is asked for. In voice mode stream_chat_and_speak registers a
\* fresh token and opens the model stream; in text mode chat_with_gpt is
\* called and no token is registered.  c: the flags after the earlier part of
\* the step.
HistStartReply(t, h, S, c) ==
    IF S.dicts[h.id].voice_mode
    THEN /\ Commit(S, [conv EXCEPT ![t] =
                 [h EXCEPT !.pc = "streaming",
                           !.calls = @ \o <<"get_cancellation_token", "chat.completions.create">>]])
         /\ cancelled' = [c EXCEPT ![t] = FALSE]
         /\ active_generations' = t
    ELSE /\ Commit(S, [conv EXCEPT ![t] =
                 [h EXCEPT !.pc = "chat", !.calls = Append(@, "chat_with_gpt")]])
         /\ cancelled' = c
         /\ UNCHANGED active_generations

\* app.py 1101-1176, 1106: the lock is taken and _process_and_respond_inner
\* runs up to the model call.  It returns with one status, and the lock is
\* released, when check_rate_limit refuses (allowed) or the text does not pass
\* sanitize_text_input and detect_prompt_injection (valid); otherwise the
\* message of the user is appended, the exchange counted, the instruction of
\* the helpdesk mode inserted and the reply asked for.  h: the handler with
\* the conv it holds; c: the flags after the earlier part of the step.
HistAdmit(t, h, S, c, allowed, valid) ==
    LET ok == allowed /\ valid
        entered == EnteredConv(S.dicts[h.id], t, ok)
    IN IF ~allowed \/ ~valid
       THEN /\ Commit([S EXCEPT !.dicts = Put(@, h.id, entered)],
                      [conv EXCEPT ![t] = Ended(h, "rejected", TRUE)])
            /\ processing_lock' = FALSE
            /\ cancelled' = c
            /\ UNCHANGED active_generations
       ELSE LET d == [entered EXCEPT
                         !.messages = @ \o Injected(entered.mode = "helpdesk",
                                                    entered.exchange_count)]
            IN /\ HistStartReply(t, h, [S EXCEPT !.dicts = Put(@, h.id, d)], c)
               /\ processing_lock' = TRUE

\* app.py 1089-1104: process_and_respond(sid, user_text) up to its first
\* suspension point: get_conversation, then, the lock being set,
\* cancel_generation and the sleep, or else the model call.  h: the handler;
\* S, c, l: the store, the flags and the lock after the earlier part of the
\* step.
HistProcessAndRespond(t, h, S, c, l, allowed, valid) ==
    LET got == HistGetConversation(S, HistFreshId)
        held == [h EXCEPT !.id = got.id]
    IN IF l
       THEN /\ Commit(got.store, [conv EXCEPT ![t] = [held EXCEPT !.pc = "sleeping"]])
            /\ cancelled' = CancelFlags(c, active_generations)
            /\ processing_lock' = FALSE
            /\ UNCHANGED active_generations
       ELSE HistAdmit(t, held, got.store, c, allowed, valid)

\* app.py 2003-2046: text_message.  interrupted: the event carries the flag,
\* and cancel_generation is called; requested_mode: the mode it names, which a
\* conv without mode takes and is saved with (2018-2031); text_ok: its text is
\* a string that sanitize_text_input does not empty (2033-2040).
HistTextMessage(t, interrupted, requested_mode, text_ok, allowed, valid) ==
    /\ HistArrives(t)
    /\ LET got == HistGetConversation(TheStore, HistFreshId)
           c == IF interrupted THEN CancelFlags(cancelled, active_generations) ELSE cancelled
           l == IF interrupted THEN FALSE ELSE processing_lock
           d == got.store.dicts[got.id]
           S == IF d.mode = None
                THEN HistSaveConversation(
                         [got.store EXCEPT !.dicts = Put(@, got.id, AutoInit(d, requested_mode))],
                         got.id)
                ELSE got.store
       IN IF ~text_ok
          THEN /\ Commit(S, [conv EXCEPT ![t] = Ended(Entered("text"), "dropped", FALSE)])
               /\ cancelled' = c
               /\ processing_lock' = l
               /\ UNCHANGED active_generations
          ELSE HistProcessAndRespond(t, Entered("text"), S, c, l, allowed, valid)
    /\ UNCHANGED <<connected, histRest>>

\* app.py 1100-1104: back from eventlet.sleep(0.05), with the conv got before it
HistWake(t, allowed, valid) ==
    /\ conv[t].pc = "sleeping"
    /\ HistAdmit(t, conv[t], TheStore, cancelled, allowed, valid)
    /\ UNCHANGED <<connected, histRest>>

\* app.py 1895-1959: audio_message up to the transcription call:
\* get_conversation, check_rate_limit (allowed), the mode of a conv without
\* mode is set and not saved (1907-1920), the audio is validated (audio_ok,
\* 1923-1944), cancel_generation is called when the event is interrupted
\* (1950-1951).  The conv is not used after the transcription.
HistAudioMessage(t, interrupted, requested_mode, audio_ok, allowed) ==
    /\ HistArrives(t)
    /\ LET got == HistGetConversation(TheStore, HistFreshId)
           d == got.store.dicts[got.id]
           S == [got.store EXCEPT !.dicts = Put(@, got.id, AutoInit(d, requested_mode))]
       IN IF ~allowed
          THEN /\ Commit(got.store, [conv EXCEPT ![t] = Ended(Entered("audio"), "refused", TRUE)])
               /\ UNCHANGED <<cancelled, processing_lock>>
          ELSE IF ~audio_ok
          THEN /\ Commit(S, [conv EXCEPT ![t] = Ended(Entered("audio"), "refused", TRUE)])
               /\ UNCHANGED <<cancelled, processing_lock>>
          ELSE /\ Commit(S, [conv EXCEPT ![t] =
                        [Entered("audio") EXCEPT !.pc = "stt",
                                                 !.calls = <<"transcribe_audio">>]])
               /\ cancelled' = IF interrupted THEN CancelFlags(cancelled, active_generations)
                               ELSE cancelled
               /\ processing_lock' = IF interrupted THEN FALSE ELSE processing_lock
    /\ UNCHANGED <<active_generations, connected, histRest>>

\* app.py 1959-1996: the transcription is back. heard: it gave a text that is
\* used; otherwise (the call raised, or its text is empty or noise) the handler
\* returns with one status.
HistTranscriptionReturn(t, heard, allowed, valid) ==
    /\ conv[t].pc = "stt"
    /\ IF ~heard
       THEN /\ Commit(TheStore, [conv EXCEPT ![t] = Ended(@, "unheard", TRUE)])
            /\ UNCHANGED <<cancelled, processing_lock, active_generations>>
       ELSE HistProcessAndRespond(t, conv[t], TheStore, cancelled, processing_lock,
                                  allowed, valid)
    /\ UNCHANGED <<connected, histRest>>

\* app.py 1764-1801, 1811-1849, 1859-1885: start_interview,
\* start_language_test, start_helpdesk up to the model call: the mode is set
\* and the system prompt becomes the only message.  supported: the language of
\* start_language_test is one of SUPPORTED_LANGUAGES (1817-1819).  No lock is
\* taken and the rate limiter is not asked.
HistStart(t, mode, supported) ==
    /\ HistArrives(t)
    /\ IF mode = "language" /\ ~supported
       THEN /\ Commit(TheStore, [conv EXCEPT ![t] = Ended(Entered("start"), "refused", TRUE)])
            /\ UNCHANGED <<cancelled, active_generations>>
       ELSE LET got == HistGetConversation(TheStore, HistFreshId)
                d == [got.store.dicts[got.id] EXCEPT
                         !.mode = mode, !.messages = <<SystemPrompt(mode)>>]
            IN HistStartReply(t, [Entered("start") EXCEPT !.id = got.id],
                              [got.store EXCEPT !.dicts = Put(@, got.id, d)], cancelled)
    /\ UNCHANGED <<processing_lock, connected, histRest>>

\* app.py 988-994: a chunk of the answer is sent to the synthesis service
HistSynth(t) ==
    /\ conv[t].pc = "streaming"
    /\ \A n \in 1 .. Len(conv[t].calls) : conv[t].calls[n] # "generate_speech"
    /\ conv' = [conv EXCEPT ![t].calls = Append(@, "generate_speech")]
    /\ UNCHANGED <<dicts, record_id, cancelled, active_generations, processing_lock, connected,
                   histRest>>

\* the handler answers a message (and not a start_* event)
MessageHandler(h) == h.kind \in {"text", "audio"}

\* app.py 1069-1085, 1174-1210, 1106, 1792-1803: the reply is there:
\* stream_chat_and_speak has returned full_text and discarded the token of the
\* session, or chat_with_gpt has returned.  has_text: the reply is not empty.
\* The answer is appended (by a start_* handler in text mode also when it is
\* empty, 1799, 1845, 1883).  A start_* handler saves the conversation.  A
\* message handler whose history needs no summarizer call compresses it,
\* saves the conversation and releases the lock in the same step; otherwise
\* the slices are taken and it waits for the summarizer.
HistReturn(t, has_text) ==
    /\ conv[t].pc \in {"streaming", "chat"}
    /\ LET h == conv[t]
           d == dicts[h.id]
           appended == IF has_text \/ (h.kind = "start" /\ h.pc = "chat")
                       THEN Append(d.messages, AssistantMsg(t))
                       ELSE d.messages
           wait == MessageHandler(h) /\ CallsSummarizer(appended, compression_threshold)
           ms == IF MessageHandler(h) /\ ~wait
                 THEN Compress(appended, compression_threshold, TRUE)
                 ELSE appended
           S == Store(Put(dicts, h.id, [d EXCEPT !.messages = ms]), record_id)
       IN /\ IF wait
             THEN Commit(S, [conv EXCEPT ![t] =
                      [h EXCEPT !.pc = "summarising", !.seen = appended,
                                !.calls = Append(@, "summarize_old_messages")]])
             ELSE Commit(HistSaveConversation(S, h.id),
                         [conv EXCEPT ![t] =
                             [Ended(h, IF MessageHandler(h) THEN "completed" ELSE "started",
                                    FALSE)
                                 EXCEPT !.seen = appended]])
          /\ processing_lock' = IF MessageHandler(h) /\ ~wait THEN FALSE ELSE processing_lock
          /\ active_generations' = IF h.pc = "streaming"
                                   THEN PopRegistry(active_generations, t)
                                   ELSE active_generations
    /\ UNCHANGED <<cancelled, connected, histRest>>

\* app.py 707-724, 1199-1210, 2216-2226: the summarizer has answered or raised
\* (llm_ok); the history is assigned from the slices taken before the call and
\* the conversation saved; process_and_respond releases the lock
HistSummaryReturn(t, llm_ok) ==
    /\ conv[t].pc = "summarising"
    /\ LET h == conv[t]
           ms == Compress(h.seen, compression_threshold, llm_ok)
           S == Store(Put(dicts, h.id, [dicts[h.id] EXCEPT !.messages = ms]), record_id)
       IN Commit(HistSaveConversation(S, h.id),
                 [conv EXCEPT ![t] = Ended(h, IF h.kind = "log" THEN "logged" ELSE "completed",
                                           FALSE)])
    /\ processing_lock' = IF conv[t].kind = "log" THEN processing_lock ELSE FALSE
    /\ UNCHANGED <<cancelled, active_generations, connected, histRest>>

\* app.py 1081-1085, 1212-1216, 1106, 1805-1808: the model call or the stream
\* has raised: the token of the session is discarded when the stream was
\* open, the handler emits its generic status and saves nothing; a message
\* handler releases the lock
HistRaise(t) ==
    /\ conv[t].pc \in {"streaming", "chat"}
    /\ Commit(TheStore, [conv EXCEPT ![t] = Ended(@, "failed", TRUE)])
    /\ processing_lock' = IF MessageHandler(conv[t]) THEN FALSE ELSE processing_lock
    /\ active_generations' = IF conv[t].pc = "streaming"
                             THEN PopRegistry(active_generations, t)
                             ELSE active_generations
    /\ UNCHANGED <<cancelled, connected, histRest>>

\* the modes a realtime_log event names: data.get('mode', conv.get('mode',
\* 'interview')) is None for an event without mode in a conv whose mode is None
LogModes == {None} \cup StartModes

\* app.py 2187-2197: a conv without mode takes the mode of the realtime_log
\* event, and the system prompt of the mode when it is one of the three
LogInit(d, mode) ==
    IF d.mode # None THEN d
    ELSE IF mode \in StartModes
    THEN [d EXCEPT !.mode = mode, !.messages = <<SystemPrompt(mode)>>]
    ELSE [d EXCEPT !.mode = mode]

\* app.py 2173-2226: realtime_log.  text_ok: the event has a text; the message
\* is appended under the role the event names, outside any turn, the exchange
\* counted, and the history compressed and saved as at the end of a turn
HistRealtimeLog(t, role, mode, text_ok) ==
    /\ HistArrives(t)
    /\ LET got == HistGetConversation(TheStore, HistFreshId)
           h == [Entered("log") EXCEPT !.id = got.id]
           d == LogInit(got.store.dicts[got.id], mode)
           appended == Append(d.messages, LogMsg(role, t))
           wait == CallsSummarizer(appended, compression_threshold)
           ms == IF wait THEN appended ELSE Compress(appended, compression_threshold, TRUE)
           S == [got.store EXCEPT !.dicts =
                    Put(@, got.id, [d EXCEPT !.messages = ms, !.exchange_count = @ + 1])]
       IN IF ~text_ok
          THEN Commit(got.store, [conv EXCEPT ![t] = Ended(h, "dropped", FALSE)])
          ELSE IF wait
          THEN Commit(S, [conv EXCEPT ![t] =
                   [h EXCEPT !.pc = "summarising", !.seen = appended,
                             !.calls = <<"summarize_old_messages">>]])
          ELSE Commit(HistSaveConversation(S, got.id),
                      [conv EXCEPT ![t] = [Ended(h, "logged", FALSE) EXCEPT !.seen = appended]])
    /\ UNCHANGED <<cancelled, active_generations, processing_lock, connected, histRest>>

\* the modes a reset event names: none, one of the three, or another text
ResetModes == {None, "x"} \cup StartModes

\* app.py 2049-2087: reset: cancel_generation, the record is deleted and the
\* token of the session discarded; an event that names a mode makes a new
\* record, with the mode and its system prompt when it is one of the three,
\* and saves it
HistReset(t, requested_mode) ==
    /\ HistArrives(t)
    /\ cancelled' = CancelFlags(cancelled, active_generations)
    /\ processing_lock' = FALSE
    /\ active_generations' = NoToken
    /\ LET got == HistGetConversation(HistDeleteSession(TheStore), HistFreshId)
           d == got.store.dicts[got.id]
           set == IF requested_mode \in StartModes
                  THEN [d EXCEPT !.mode = requested_mode,
                                 !.messages = <<SystemPrompt(requested_mode)>>]
                  ELSE d
           cv == [conv EXCEPT ![t] = Ended(Entered("reset"), "reset", TRUE)]
       IN IF requested_mode = None
          THEN Commit(HistDeleteSession(TheStore), cv)
          ELSE Commit(HistSaveConversation([got.store EXCEPT !.dicts = Put(@, got.id, set)],
                                           got.id), cv)
    /\ UNCHANGED <<connected, histRest>>

\* app.py 1733-1761: disconnect: cancel_generation, the record is deleted and
\* the token of the session discarded
HistDisconnect ==
    /\ connected
    /\ connected' = FALSE
    /\ cancelled' = CancelFlags(cancelled, active_generations)
    /\ processing_lock' = FALSE
    /\ active_generations' = NoToken
    /\ Commit(HistDeleteSession(TheStore), conv)
    /\ UNCHANGED histRest

\* app.py 2090-2099: cancel_stream: get_conversation, cancel_generation
HistCancelStream(t) ==
    /\ HistArrives(t)
    /\ cancelled' = CancelFlags(cancelled, active_generations)
    /\ processing_lock' = FALSE
    /\ Commit(HistGetConversation(TheStore, HistFreshId).store,
              [conv EXCEPT ![t] = Ended(Entered("cancel_stream"), "stopped", TRUE)])
    /\ UNCHANGED <<active_generations, connected, histRest>>

\* app.py 2106-2120: toggle_voice_mode: the flag is set in the conv
\* get_conversation gives and the conv saved
HistToggleVoiceMode(t, voice_on) ==
    /\ HistArrives(t)
    /\ LET got == HistGetConversation(TheStore, HistFreshId)
           d == [got.store.dicts[got.id] EXCEPT !.voice_mode = voice_on]
       IN Commit(HistSaveConversation([got.store EXCEPT !.dicts = Put(@, got.id, d)], got.id),
                 [conv EXCEPT ![t] = Ended(Entered("toggle_voice_mode"), "toggled", FALSE)])
    /\ UNCHANGED <<cancelled, active_generations, processing_lock, connected, histRest>>

\* app.py 2123-2128, 2155-2158: request_tts and get_session_info read the conv
\* get_conversation gives
HistGetSessionInfo(t) ==
    /\ HistArrives(t)
    /\ Commit(HistGetConversation(TheStore, HistFreshId).store,
              [conv EXCEPT ![t] = Ended(Entered("get_session_info"), "told", FALSE)])
    /\ UNCHANGED <<cancelled, active_generations, processing_lock, connected, histRest>>

\* the record of a session when its events begin: the one handle_connect has
\* stored (app.py 1716-1729), with voice mode on or toggled off
\* (2111-2114), or the one of a helpdesk session that was
\* started anew after four exchanges: start_helpdesk (1863-1864) replaces
\* conv['messages'] and leaves the count of the exchanges before
InitDicts ==
    {NewDict, [NewDict EXCEPT !.voice_mode = FALSE],
     Dict(<<IT_HELPDESK_SYSTEM_PROMPT>>, 4, "helpdesk", TRUE)}

InitHistory ==
    /\ InitGen
    /\ InitRateIdle
    /\ InitSession
    /\ InitStoreIdle
    /\ InitRedisIdle
    /\ InitCacheIdle
    /\ InitErrIdle
    /\ InitSessIdle
    /\ conv = [t \in HistEvents |-> IdleConv]
    /\ redis_history \in BOOLEAN
    /\ compression_threshold \in {MinThreshold, MEMORY_COMPRESSION_THRESHOLD}
    /\ record_id = IF redis_history THEN RedisId ELSE 1
    /\ \E d \in InitDicts : dicts = [i \in {record_id} |-> d]

NextHistory ==
    \/ \E t \in HistEvents, interrupted \in BOOLEAN, requested_mode \in StartModes,
          text_ok \in BOOLEAN, allowed \in BOOLEAN, valid \in BOOLEAN :
          HistTextMessage(t, interrupted, requested_mode, text_ok, allowed, valid)
    \/ \E t \in HistEvents, allowed \in BOOLEAN, valid \in BOOLEAN : HistWake(t, allowed, valid)
    \/ \E t \in HistEvents, interrupted \in BOOLEAN, requested_mode \in StartModes,
          audio_ok \in BOOLEAN, allowed \in BOOLEAN :
          HistAudioMessage(t, interrupted, requested_mode, audio_ok, allowed)
    \/ \E t \in HistEvents, heard \in BOOLEAN, allowed \in BOOLEAN, valid \in BOOLEAN :
          HistTranscriptionReturn(t, heard, allowed, valid)
    \/ \E t \in HistEvents, mode \in StartModes, supported \in BOOLEAN : HistStart(t, mode, supported)
    \/ \E t \in HistEvents : HistSynth(t)
    \/ \E t \in HistEvents, has_text \in BOOLEAN : HistReturn(t, has_text)
    \/ \E t \in HistEvents, llm_ok \in BOOLEAN : HistSummaryReturn(t, llm_ok)
    \/ \E t \in HistEvents : HistRaise(t)
    \/ \E t \in HistEvents, role \in LogRoles, mode \in LogModes, text_ok \in BOOLEAN :
          HistRealtimeLog(t, role, mode, text_ok)
    \/ \E t \in HistEvents, requested_mode \in ResetModes : HistReset(t, requested_mode)
    \/ HistDisconnect
    \/ \E t \in HistEvents : HistCancelStream(t)
    \/ \E t \in HistEvents, voice_on \in BOOLEAN : HistToggleVoiceMode(t, voice_on)
    \/ \E t \in HistEvents : HistGetSessionInfo(t)

SpecHistory == InitHistory /\ [][NextHistory]_vars

\* ------------------------------------------------ the error outcomes on their own
\* the texts an exception or an upstream error body can carry
ExcTexts == {"x1", "x2"}

\* the except branches of the socket handlers that emit a status;
\* audio_message has three: around base64.b64decode, around transcribe_audio
\* and the outer one
Handlers == {"process_and_respond", "start_interview", "start_language_test",
             "start_helpdesk", "audio_message", "audio_message b64decode",
             "audio_message transcribe_audio", "request_tts"}

\* app.py 1216, 1808, 1856, 1892, 2000, 1933, 1964, 2152: the message of the
\* status event the except branch emits
StatusOnError(handler) ==
    CASE handler = "process_and_respond" -> "Something went wrong. Please try again."
      [] handler = "start_interview" -> "Error starting interview. Please try again."
      [] handler = "start_language_test" -> "Error starting language test. Please try again."
      [] handler = "start_helpdesk" -> "Error starting IT Helpdesk. Please try again."
      [] handler = "audio_message" -> "Error processing audio. Please try again."
      [] handler = "audio_message b64decode" -> "Invalid audio format."
      [] handler = "audio_message transcribe_audio" ->
            "Sorry, I had trouble hearing that. Could you say it again?"
      [] handler = "request_tts" -> "Could not generate audio. Try again."

\* an error outcome: where it came from, the text of the exception or of the
\* upstream body that caused it, and the values of the fields sent to the client
Outcome(source, cause, content) == [source |-> source, cause |-> cause, content |-> content]

\* the history after the outcome o was sent
Delivered(o) == (IF Len(delivered) < 2 THEN delivered ELSE Tail(delivered)) \o <<o>>

errRest == <<genVars, rateVars, memory_store, storeRest, redisVars, cacheVars, histVars, sessVars>>

\* the except branch of a socket handler; e is the text of the exception
HandlerFails(handler, e) ==
    /\ delivered' = Delivered(Outcome(handler, e, <<StatusOnError(handler)>>))
    /\ UNCHANGED errRest

\* app.py 1431-1433: create_realtime_token, the upstream service answered with
\* an error status and the body e
RealtimeTokenHTTPError(e) ==
    /\ delivered' = Delivered(Outcome("create_realtime_token HTTPError", e,
                                      <<"Failed to create voice session", e>>))
    /\ UNCHANGED errRest

\* app.py 1434-1436: create_realtime_token, any other exception
RealtimeTokenFails(e) ==
    /\ delivered' = Delivered(Outcome("create_realtime_token Exception", e,
                                      <<"Failed to create voice session">>))
    /\ UNCHANGED errRest

\* app.py 1559-1561: create_realtime_session, the upstream service answered
\* with an error status and the body e
RealtimeSessionHTTPError(e) ==
    /\ delivered' = Delivered(Outcome("create_realtime_session HTTPError", e,
                                      <<"Failed to create voice session", e>>))
    /\ UNCHANGED errRest

\* app.py 1562-1564: create_realtime_session, any other exception
RealtimeSessionFails(e) ==
    /\ delivered' = Delivered(Outcome("create_realtime_session Exception", e,
                                      <<"Failed to create voice session">>))
    /\ UNCHANGED errRest

InitErrors ==
    /\ InitGen
    /\ InitRateIdle
    /\ InitSession
    /\ InitAux

NextErrors ==
    \/ \E h \in Handlers, e \in ExcTexts : HandlerFails(h, e)
    \/ \E e \in ExcTexts : RealtimeTokenHTTPError(e)
    \/ \E e \in ExcTexts : RealtimeTokenFails(e)
    \/ \E e \in ExcTexts : RealtimeSessionHTTPError(e)
    \/ \E e \in ExcTexts : RealtimeSessionFails(e)

SpecErrors == InitErrors /\ [][NextErrors]_vars

\* ------------------------------------------- the synthesis cache on its own
\* triples whose texts, voices and modes share parts
CacheTriples ==
    {<< <<"a">>, <<"v">>, <<"v", "|", "m">> >>,
     << <<"a", "|", "v">>, <<"v">>, <<"m">> >>,
     << <<"a">>, <<"w">>, <<"v", "|", "m">> >>,
     << <<"a">>, <<"v">>, <<"m">> >>}

\* what the synthesis service may return for a request (response.content), the
\* empty body included
Contents == {<<>>, <<"x">>, <<"y">>}

\* app.py 153-157: store_tts_cache(text, voice, mode, audio_b64)
StoreTTSCache(triple, audio_b64) ==
    /\ Completed(cacheLog) < MaxCacheOps
    /\ LET after == SetTTSCacheAfter(tts_cache_memory, KeyOf(triple), audio_b64, max_size, clock)
       IN /\ tts_cache_memory' = after
          /\ cacheLog' = Logged(cacheLog,
                CacheCall(cacheLog, "put", "none", triple, audio_b64, None,
                          SetRaises(tts_cache_memory, max_size), tts_cache_memory, after,
                          Completed(cacheLog), clock))
    /\ put_triples' = put_triples \cup {triple}
    /\ UNCHANGED <<max_size, speech, rateVars, errVars, sessVars, histVars, genVars, memory_store, storeRest, redisVars>>

\* app.py 143-150: get_cached_tts(text, voice, mode)
GetCachedTTS(triple) ==
    /\ Completed(cacheLog) < MaxCacheOps
    /\ LET after == GetTTSCacheAfter(tts_cache_memory, KeyOf(triple), clock)
       IN /\ tts_cache_memory' = after
          /\ cacheLog' = Logged(cacheLog,
                CacheCall(cacheLog, "get", "none", triple, None,
                          GetCachedTTSResult(tts_cache_memory, triple),
                          FALSE, tts_cache_memory, after, Completed(cacheLog), clock))
    /\ UNCHANGED <<max_size, speech, put_triples, rateVars, errVars, sessVars, histVars, genVars, memory_store, storeRest, redisVars>>

InitCache ==
    /\ InitGen
    /\ InitErrIdle
    /\ InitHistIdle
    /\ InitSessIdle
    /\ InitSession
    /\ InitRateIdle
    /\ InitStoreIdle
    /\ InitRedisIdle
    /\ tts_cache_memory = <<>>
    /\ max_size \in 0 .. MaxCacheSize
    /\ speech = [s \in Sids |-> IdleSpeech]
    /\ cacheLog = <<>>
    /\ put_triples = {}

NextCache ==
    \/ Tick(1)
    \/ \E triple \in CacheTriples, content \in Contents : StoreTTSCache(triple, B64Encode(content))
    \/ \E triple \in CacheTriples : GetCachedTTS(triple)

SpecCache == InitCache /\ [][NextCache]_vars

\* -------------------------------------------- generate_speech on its own
\* app.py 890-897: a session enters generate_speech: the cache is looked up; on
\* a hit the decoded payload is returned, on a miss the service is called
SpeechLookup(sid, triple) ==
    /\ speech[sid].pc = "idle"
    /\ Completed(cacheLog) + Cardinality({x \in Sids : speech[x].pc = "calling"}) < MaxCacheOps
    /\ LET cached == GetCachedTTSResult(tts_cache_memory, triple)
           after == GetTTSCacheAfter(tts_cache_memory, KeyOf(triple), clock)
       IN /\ tts_cache_memory' = after
          /\ IF cached # None
             THEN /\ cacheLog' = Logged(cacheLog,
                        CacheCall(cacheLog, "speech_hit", sid, triple, cached, B64Decode(cached),
                                  FALSE, tts_cache_memory, after, Completed(cacheLog), clock))
                  /\ UNCHANGED speech
             ELSE /\ speech' = [speech EXCEPT ![sid] =
                        [pc |-> "calling", triple |-> triple, started |-> Completed(cacheLog)]]
                  /\ UNCHANGED cacheLog
    /\ UNCHANGED <<max_size, put_triples, rateVars, errVars, sessVars, histVars, genVars, memory_store, storeRest, redisVars>>

\* app.py 905-923: the service returns the audio; it is stored in the cache
\* and returned
SpeechReturn(sid, content) ==
    /\ speech[sid].pc = "calling"
    /\ LET triple == speech[sid].triple
           audio_b64 == B64Encode(content)
           after == SetTTSCacheAfter(tts_cache_memory, KeyOf(triple), audio_b64, max_size, clock)
           raised == SetRaises(tts_cache_memory, max_size)
       IN /\ tts_cache_memory' = after
          /\ put_triples' = put_triples \cup {triple}
          /\ cacheLog' = Logged(cacheLog,
                CacheCall(cacheLog, "speech_miss", sid, triple, audio_b64,
                          IF raised THEN None ELSE content,
                          raised, tts_cache_memory, after, speech[sid].started, clock))
    /\ speech' = [speech EXCEPT ![sid] = IdleSpeech]
    /\ UNCHANGED <<max_size, rateVars, errVars, sessVars, histVars, genVars, memory_store, storeRest, redisVars>>

\* app.py 907-914: the service raises, and so does generate_speech
SpeechRaise(sid) ==
    /\ speech[sid].pc = "calling"
    /\ cacheLog' = Logged(cacheLog,
          CacheCall(cacheLog, "speech_miss", sid, speech[sid].triple, None, None,
                    TRUE, tts_cache_memory, tts_cache_memory, speech[sid].started, clock))
    /\ speech' = [speech EXCEPT ![sid] = IdleSpeech]
    /\ UNCHANGED <<tts_cache_memory, max_size, put_triples, rateVars, errVars, sessVars, histVars, genVars, memory_store,
                   storeRest, redisVars>>

\* the same text in two voices
SpeechTriples ==
    {<< <<"a">>, <<"v">>, <<"m">> >>,
     << <<"a">>, <<"w">>, <<"m">> >>}

NextSpeech ==
    \/ Tick(1)
    \/ \E sid \in Sids, triple \in SpeechTriples : SpeechLookup(sid, triple)
    \/ \E sid \in Sids, content \in Contents : SpeechReturn(sid, content)
    \/ \E sid \in Sids : SpeechRaise(sid)

SpecSpeech == InitCache /\ [][NextSpeech]_vars

\* ------------------------------------------ the connections of the clients
\* socket ids; a socket id is given to one connection only
SessionSids == {"s1", "s2"}
\* the socket ids of the connections that are swept
SweepSids == {"s1", "s2", "s3"}

\* the conv a handler got from get_conversation. id: which dict it is when it
\* is the dict _memory_store holds or held, NoId when it is a copy decoded
\* from Redis, which no other handler sees; mode: conv['mode'] is set
Held(id, mode) == [id |-> id, mode |-> mode]
NoHeld == Held(NoId, FALSE)

\* a suspended handler of a connection and the conv it holds. kind "sleep":
\* process_and_respond in eventlet.sleep(0.05) (app.py 1100); "turn": the turn
\* of a message at its model call (1167-1176); "stt": handle_audio_message at
\* the transcription (1959); "start": a start_* handler at its model call;
\* "log": handle_realtime_log at the summarizer (2216)
Waiting(kind, held) == [kind |-> kind, id |-> held.id, mode |-> held.mode]

\* a connection: state is "new" before the connect event, "on" while the
\* socket is open, "off" after it was refused or closed; lock:
\* processing_lock[sid] is set; waiting: the bag of its suspended handlers
Client(state, lock, waiting) == [state |-> state, lock |-> lock, waiting |-> waiting]

\* a record of _memory_store has no time at which it expires
NoExpiry == 0

\* the record of a session as far as the store looks at it: last_activity,
\* the time the Redis key holding it expires (keyed: it is written to
\* Redis), the dict it is and whether its mode is set
SessionRecord(now, held, keyed) ==
    [last_activity |-> now, expires |-> IF keyed THEN now + REDIS_SESSION_TTL ELSE NoExpiry,
     id |-> IF keyed THEN NoId ELSE held.id, mode |-> held.mode]

\* variant: a session is stale from timeout seconds on
IsStaleAtTimeout(record, now, timeout) == now - record.last_activity >= timeout

\* redis_store.py 187: now - conv.get('last_activity', 0) > timeout
IsStale(record, now, timeout) == now - record.last_activity > timeout

\* redis_store.py 179-190: cleanup_stale_sessions(timeout)
cleanup_stale_sessions(av, rs, m, now, timeout) ==
    IF av THEN StoreResult(0, m, rs)
    ELSE LET stale == {sid \in DOMAIN m : IsStale(m[sid], now, timeout)}
         IN StoreResult(Cardinality(stale), [sid \in DOMAIN m \ stale |-> m[sid]], rs)

\* an entry of the history of store calls for a call of cleanup_stale_sessions
SweepCall(av, now, timeout, m, rs, r) ==
    [op |-> "cleanup", available |-> av, now |-> now, timeout |-> timeout,
     mem_before |-> m, redis_before |-> rs, result |-> r.result,
     mem_after |-> r.mem, redis_after |-> r.redis]

\* redis_store.py 81-82: get_session refreshes the expiry of the Redis key
Refreshed(rs, sid, now) ==
    IF sid \in DOMAIN rs THEN [rs EXCEPT ![sid].expires = now + REDIS_SESSION_TTL] ELSE rs

\* the dicts of a session that a suspended handler holds, and a dict that is
\* none of them for a record that is made when the store holds none
SessLiveIds(sid) == {h.id : h \in BagToSet(clients[sid].waiting)}
SessFreshId(sid) ==
    CHOOSE n \in 0 .. MaxWaiting + 1 :
        n \notin SessLiveIds(sid) /\ \A k \in 0 .. n - 1 : k \in SessLiveIds(sid)

\* app.py 670-687, redis_store.py 71-88, 128-144: get_conversation(sid): the
\* record is created when session_exists finds none (fresh: the dict made for
\* it); get_session then reads Redis when it answers (the key's expiry is
\* refreshed and a copy is decoded) and _memory_store otherwise, and
\* app.py 686 sets last_activity of the dict it got. result: the conv the
\* caller holds.
get_conversation(av, up, rs, m, sid, now, fresh) ==
    LET created == IF ~session_exists(av, up, rs, m, sid).result
                   THEN set_session(av, up, rs, m, sid,
                                    SessionRecord(now, Held(fresh, FALSE), av /\ up))
                   ELSE StoreResult(None, m, rs)
    IN IF av /\ up
       THEN StoreResult(Held(NoId, sid \in DOMAIN created.redis /\ created.redis[sid].mode),
                        created.mem, Refreshed(created.redis, sid, now))
       ELSE IF sid \in DOMAIN created.mem
            THEN StoreResult(Held(created.mem[sid].id, created.mem[sid].mode),
                             [created.mem EXCEPT ![sid].last_activity = now], created.redis)
            ELSE StoreResult(Held(fresh, FALSE), created.mem, created.redis)

\* app.py 690-692, redis_store.py 91-105: save_conversation(sid, conv): the
\* conv a handler holds becomes the record of the session
save_conversation(av, up, rs, m, sid, held, now) ==
    set_session(av, up, rs, m, sid, SessionRecord(now, held, av /\ up))

\* a handler sets conv['mode'] of the dict it holds: the record and the
\* suspended handlers that hold the same dict see it
ModeSet(m, sid, held) ==
    IF held.id # NoId /\ sid \in DOMAIN m /\ m[sid].id = held.id
    THEN [m EXCEPT ![sid].mode = TRUE]
    ELSE m
ModeShared(waiting, held) ==
    IF held.id = NoId THEN waiting
    ELSE BagOfAll(LAMBDA h : IF h.id = held.id THEN [h EXCEPT !.mode = TRUE] ELSE h, waiting)

\* redis_store.py 279-341: check_rate_limit(sid) of a connection. With Redis
\* configured and answering, the window of the session is kept in the Redis
\* keys, _rate_limit_memory is not touched and redis_allowed is the answer of
\* the limiter. When Redis is not configured, or its call raises (282-285),
\* _check_rate_limit_memory answers and records in _rate_limit_memory.
SessAllowed(rl, sid, redis_allowed) ==
    IF redis_available /\ redis_up THEN redis_allowed
    ELSE RateAllowed(Timestamps(rl, sid), clock, rpm, rph)
SessRateAfter(rl, sid) ==
    IF redis_available /\ redis_up THEN rl
    ELSE RateMemoryAfter(rl, sid, clock, rpm, rph)

\* what a handler of a connection leaves behind when it suspends or returns
Effect(m, rs, rl, c) == [mem |-> m, redis |-> rs, rate |-> rl, client |-> c]

\* the variables the events of a connection leave alone
sessRest ==
    <<max_sessions, clock, rpm, rph, calls, ticks, redis_available, redis_up, storeLog,
      written, errVars, histVars, genVars, redisVars, cacheVars>>

\* the number of suspended handlers of the connections S
RECURSIVE SessSuspended(_, _)
SessSuspended(cs, S) ==
    IF S = {} THEN 0
    ELSE LET s == CHOOSE x \in S : TRUE
         IN BagCardinality(cs[s].waiting) + SessSuspended(cs, S \ {s})

\* the step of a handler of the connection sid with the effect e;
\* socket_event: the handler starts with it, it does not go on after a wait
SessStep(sid, e, socket_event) ==
    /\ socket_event => events < MaxEvents
    /\ events' = IF socket_event THEN events + 1 ELSE events
    /\ memory_store' = e.mem
    /\ redis_sessions' = e.redis
    /\ rate_limit_memory' = e.rate
    /\ clients' = [clients EXCEPT ![sid] = e.client]
    /\ SessSuspended(clients', DOMAIN clients) <= MaxWaiting
    /\ UNCHANGED sessRest

\* app.py 1112-1133, 1101, 1167: _process_and_respond_inner up to the model
\* call: check_rate_limit, then the sanitizing of the text and the test for
\* injection (injected: one of the two refuses the message); a message that
\* passes sets processing_lock and is answered by a turn
SessAdmit(sid, e, held, redis_allowed, injected) ==
    LET ok == SessAllowed(e.rate, sid, redis_allowed) /\ ~injected
    IN [e EXCEPT !.rate = SessRateAfter(e.rate, sid),
                 !.client = [@ EXCEPT !.lock = ok,
                                      !.waiting = IF ok
                                                  THEN @ (+) SetToBag({Waiting("turn", held)})
                                                  ELSE @]]

\* app.py 1089-1106: process_and_respond(sid, text): get_conversation; with
\* processing_lock set, cancel_generation and eventlet.sleep(0.05) before the
\* rest
SessProcessAndRespond(sid, e, redis_allowed, injected) ==
    LET got == get_conversation(redis_available, redis_up, e.redis, e.mem, sid, clock,
                                SessFreshId(sid))
        e1 == [e EXCEPT !.mem = got.mem, !.redis = got.redis]
    IN IF e.client.lock
       THEN [e1 EXCEPT !.client = [@ EXCEPT !.lock = FALSE,
                                            !.waiting = @ (+) SetToBag({Waiting("sleep",
                                                                                got.result)})]]
       ELSE SessAdmit(sid, e1, got.result, redis_allowed, injected)

\* app.py 1696-1730: handle_connect
SessConnect(sid, authenticated) ==
    /\ clients[sid].state = "new"
    /\ events < MaxEvents
    /\ events' = events + 1
    /\ LET swept == cleanup_stale_sessions(redis_available, redis_sessions, memory_store,
                                           clock, SESSION_TIMEOUT)
           session_count == get_session_count(redis_available, redis_up,
                                              swept.redis, swept.mem).result
           accepted == authenticated /\ session_count < max_sessions
           session_data == SessionRecord(clock, Held(SessFreshId(sid), FALSE),
                                         redis_available /\ redis_up)
           stored == IF accepted
                     THEN set_session(redis_available, redis_up, swept.redis, swept.mem,
                                      sid, session_data)
                     ELSE swept
       IN /\ clients' = [clients EXCEPT ![sid].state = IF accepted THEN "on" ELSE "off"]
          /\ memory_store' = IF authenticated THEN stored.mem ELSE memory_store
          /\ redis_sessions' = IF authenticated THEN stored.redis ELSE redis_sessions
          /\ storeLog' = IF authenticated
                         THEN <<SweepCall(redis_available, clock, SESSION_TIMEOUT,
                                          memory_store, redis_sessions, swept)>>
                         ELSE storeLog
    /\ UNCHANGED <<max_sessions, redis_available, redis_up, written, rateVars, errVars, histVars,
                   genVars, redisVars, cacheVars>>

\* app.py 2003-2046: handle_text_message. interrupted: the event says so;
\* text_ok: the text is a str that is not empty after sanitize_text_input.
\* A conv without mode gets the interview mode and is saved (2018-2031); a
\* message without text returns before process_and_respond (2033-2040).
SessTextMessage(sid, interrupted, text_ok, redis_allowed, injected) ==
    /\ clients[sid].state = "on"
    /\ LET got == get_conversation(redis_available, redis_up, redis_sessions, memory_store,
                                   sid, clock, SessFreshId(sid))
           held == Held(got.result.id, TRUE)
           saved == IF got.result.mode THEN got
                    ELSE save_conversation(redis_available, redis_up, got.redis, got.mem,
                                           sid, held, clock)
           c == [clients[sid] EXCEPT !.lock = IF interrupted THEN FALSE ELSE @,
                                     !.waiting = ModeShared(@, held)]
           e == Effect(saved.mem, saved.redis, rate_limit_memory, c)
       IN SessStep(sid, IF text_ok
                        THEN SessProcessAndRespond(sid, e, redis_allowed, injected)
                        ELSE e, TRUE)

\* app.py 1100-1133: process_and_respond wakes from eventlet.sleep(0.05) and
\* goes on with the conv it got before the sleep
SessWake(sid, redis_allowed, injected) ==
    \E h \in BagToSet(clients[sid].waiting) :
        /\ h.kind = "sleep"
        /\ LET c == [clients[sid] EXCEPT !.waiting = @ (-) SetToBag({h})]
               e == Effect(memory_store, redis_sessions, rate_limit_memory, c)
           IN SessStep(sid, SessAdmit(sid, e, Held(h.id, h.mode), redis_allowed, injected), FALSE)

\* a suspended handler of kind kind goes on to its return: the conv it holds
\* is saved (app.py 1210, 1803, 1851, 1887, 2226), or the call it waited for
\* has raised and nothing is saved (1212-1216); the turn of a message leaves
\* processing_lock unset (1106)
SessReturns(sid, kind, saved) ==
    \E h \in BagToSet(clients[sid].waiting) :
        /\ h.kind = kind
        /\ LET c == [clients[sid] EXCEPT !.lock = IF kind = "turn" THEN FALSE ELSE @,
                                         !.waiting = @ (-) SetToBag({h})]
               stored == IF saved
                         THEN save_conversation(redis_available, redis_up, redis_sessions,
                                                memory_store, sid, Held(h.id, h.mode), clock)
                         ELSE StoreResult(None, memory_store, redis_sessions)
           IN SessStep(sid, Effect(stored.mem, stored.redis, rate_limit_memory, c), FALSE)

\* app.py 1895-1959: handle_audio_message up to the transcription:
\* get_conversation, check_rate_limit, the mode of a conv without mode is set
\* and not saved (1907-1920); audio_ok: the audio passes the validation
\* (1923-1944); then cancel_generation when interrupted (1950-1951)
SessAudioMessage(sid, interrupted, audio_ok, redis_allowed) ==
    /\ clients[sid].state = "on"
    /\ LET got == get_conversation(redis_available, redis_up, redis_sessions, memory_store,
                                   sid, clock, SessFreshId(sid))
           allowed == SessAllowed(rate_limit_memory, sid, redis_allowed)
           held == Held(got.result.id, TRUE)
           c == clients[sid]
       IN SessStep(sid, Effect(
              IF allowed THEN ModeSet(got.mem, sid, held) ELSE got.mem,
              got.redis,
              SessRateAfter(rate_limit_memory, sid),
              IF ~allowed THEN c
              ELSE [c EXCEPT !.lock = IF audio_ok /\ interrupted THEN FALSE ELSE @,
                             !.waiting = IF audio_ok
                                         THEN ModeShared(@, held)
                                                  (+) SetToBag({Waiting("stt", NoHeld)})
                                         ELSE ModeShared(@, held)]), TRUE)

\* app.py 1959-2000: the transcription returns; heard: it gave a text, which
\* goes to process_and_respond (1996)
SessTranscriptionReturn(sid, heard, redis_allowed, injected) ==
    /\ BagIn(Waiting("stt", NoHeld), clients[sid].waiting)
    /\ LET c == [clients[sid] EXCEPT !.waiting = @ (-) SetToBag({Waiting("stt", NoHeld)})]
           e == Effect(memory_store, redis_sessions, rate_limit_memory, c)
       IN SessStep(sid, IF heard
                        THEN SessProcessAndRespond(sid, e, redis_allowed, injected)
                        ELSE e, FALSE)

\* app.py 1764-1892: start_interview, start_language_test, start_helpdesk up
\* to the model call: the mode and the messages of the conv are set;
\* supported: the language asked for is one the test knows (1817-1819)
SessStart(sid, supported) ==
    /\ clients[sid].state = "on"
    /\ LET got == get_conversation(redis_available, redis_up, redis_sessions, memory_store,
                                   sid, clock, SessFreshId(sid))
           held == Held(got.result.id, TRUE)
           c == clients[sid]
       IN SessStep(sid, IF supported
                        THEN Effect(ModeSet(got.mem, sid, held), got.redis, rate_limit_memory,
                                    [c EXCEPT !.waiting = ModeShared(@, held)
                                                              (+) SetToBag({Waiting("start",
                                                                                    held)})])
                        ELSE Effect(memory_store, redis_sessions, rate_limit_memory, c), TRUE)

\* app.py 2090-2099: handle_cancel_stream
SessCancelStream(sid) ==
    /\ clients[sid].state = "on"
    /\ LET got == get_conversation(redis_available, redis_up, redis_sessions, memory_store,
                                   sid, clock, SessFreshId(sid))
       IN SessStep(sid, Effect(got.mem, got.redis, rate_limit_memory,
                               [clients[sid] EXCEPT !.lock = FALSE]), TRUE)

\* app.py 2106-2120: handle_toggle_voice_mode
SessToggleVoiceMode(sid) ==
    /\ clients[sid].state = "on"
    /\ LET got == get_conversation(redis_available, redis_up, redis_sessions, memory_store,
                                   sid, clock, SessFreshId(sid))
           saved == save_conversation(redis_available, redis_up, got.redis, got.mem, sid,
                                      got.result, clock)
       IN SessStep(sid, Effect(saved.mem, saved.redis, rate_limit_memory, clients[sid]), TRUE)

\* app.py 2123-2152: handle_request_tts
SessRequestTTS(sid, redis_allowed) ==
    /\ clients[sid].state = "on"
    /\ LET got == get_conversation(redis_available, redis_up, redis_sessions, memory_store,
                                   sid, clock, SessFreshId(sid))
       IN SessStep(sid, Effect(got.mem, got.redis, SessRateAfter(rate_limit_memory, sid),
                               clients[sid]), TRUE)

\* app.py 2155-2170: handle_get_session_info
SessGetSessionInfo(sid) ==
    /\ clients[sid].state = "on"
    /\ LET got == get_conversation(redis_available, redis_up, redis_sessions, memory_store,
                                   sid, clock, SessFreshId(sid))
       IN SessStep(sid, Effect(got.mem, got.redis, rate_limit_memory, clients[sid]), TRUE)

\* app.py 2173-2226: handle_realtime_log. text_ok: the event has a text;
\* names_mode: it names a mode, which a conv without mode takes (2190-2200);
\* summarizes: the history has passed the threshold and the handler waits
\* for the summarizer (2211-2216) before it saves
SessRealtimeLog(sid, text_ok, names_mode, summarizes) ==
    /\ clients[sid].state = "on"
    /\ LET got == get_conversation(redis_available, redis_up, redis_sessions, memory_store,
                                   sid, clock, SessFreshId(sid))
           sets == names_mode /\ ~got.result.mode
           held == Held(got.result.id, got.result.mode \/ names_mode)
           mem == IF sets THEN ModeSet(got.mem, sid, held) ELSE got.mem
           c == [clients[sid] EXCEPT !.waiting = IF sets THEN ModeShared(@, held) ELSE @]
           saved == save_conversation(redis_available, redis_up, got.redis, mem, sid, held,
                                      clock)
       IN SessStep(sid,
              IF ~text_ok THEN Effect(got.mem, got.redis, rate_limit_memory, clients[sid])
              ELSE IF summarizes
                   THEN Effect(mem, got.redis, rate_limit_memory,
                               [c EXCEPT !.waiting = @ (+) SetToBag({Waiting("log", held)})])
                   ELSE Effect(saved.mem, saved.redis, rate_limit_memory, c),
              TRUE)

\* the mode a reset event asks for: none, one of interview, language and
\* helpdesk, or another text
RequestedModes == {"", "interview", "x"}

\* app.py 2049-2087: handle_reset
SessReset(sid, requested_mode) ==
    /\ clients[sid].state = "on"
    /\ LET deleted == delete_session(redis_available, redis_up, redis_sessions, memory_store, sid)
           got == get_conversation(redis_available, redis_up, deleted.redis, deleted.mem,
                                   sid, clock, SessFreshId(sid))
           saved == save_conversation(redis_available, redis_up, got.redis, got.mem, sid,
                                      Held(got.result.id, requested_mode = "interview"), clock)
           stored == IF requested_mode # "" THEN saved ELSE deleted
       IN SessStep(sid, Effect(stored.mem, stored.redis,
                               ClearRateLimit(rate_limit_memory, sid),
                               [clients[sid] EXCEPT !.lock = FALSE]), TRUE)

\* app.py 1733-1761: handle_disconnect
SessDisconnect(sid) ==
    /\ clients[sid].state = "on"
    /\ LET deleted == delete_session(redis_available, redis_up, redis_sessions, memory_store, sid)
       IN SessStep(sid, Effect(deleted.mem, deleted.redis,
                               ClearRateLimit(rate_limit_memory, sid),
                               [clients[sid] EXCEPT !.state = "off", !.lock = FALSE]), TRUE)

\* time passes
SessTick(d) ==
    /\ ticks < MaxSessionTicks
    /\ clock' = clock + d
    /\ ticks' = ticks + 1
    /\ UNCHANGED <<rate_limit_memory, rpm, rph, calls, memory_store, storeRest, sessVars,
                   errVars, histVars, genVars, redisVars, cacheVars>>

\* redis_store.py 97-100: the server drops a session key whose time set by
\* setex or expire has come
RedisExpire(sid) ==
    /\ redis_available
    /\ sid \in DOMAIN redis_sessions
    /\ clock >= redis_sessions[sid].expires
    /\ redis_sessions' = MemPop(redis_sessions, sid)
    /\ UNCHANGED <<redis_available, redis_up, storeLog, written, memory_store, rateVars, sessVars,
                   errVars, histVars, genVars, redisVars, cacheVars>>

\* the steps the clock of the connections takes: past the timeout of a
\* session, and for the sweep to the timeout and a second further
SessionClockSteps == {SESSION_TIMEOUT + 1}
SweepClockSteps == {1, SESSION_TIMEOUT}

InitConnections(sids) ==
    /\ InitGen
    /\ InitRedisIdle
    /\ InitCacheIdle
    /\ InitErrIdle
    /\ InitHistIdle
    /\ clock = 0
    /\ rate_limit_memory = [s \in {} |-> <<>>]
    /\ rpm = MaxBudget
    /\ rph = MaxBudget
    /\ calls = <<>>
    /\ ticks = 0
    /\ memory_store = [s \in {} |-> None]
    /\ redis_available \in BOOLEAN
    /\ redis_up = redis_available
    /\ redis_sessions = [s \in {} |-> None]
    /\ storeLog = <<>>
    /\ written = [s \in {} |-> None]
    /\ max_sessions \in 1 .. MaxSessionCap
    /\ events = 0
    /\ clients = [s \in sids |-> Client("new", FALSE, EmptyBag)]

InitSessions == InitConnections(SessionSids)

\* the kinds of suspended handler that return with or without a save
SavingKinds == {"turn", "start"}

NextSessions ==
    \/ \E sid \in SessionSids, authenticated \in BOOLEAN : SessConnect(sid, authenticated)
    \/ \E sid \in SessionSids, interrupted, text_ok, redis_allowed, injected \in BOOLEAN :
           SessTextMessage(sid, interrupted, text_ok, redis_allowed, injected)
    \/ \E sid \in SessionSids, redis_allowed, injected \in BOOLEAN :
           SessWake(sid, redis_allowed, injected)
    \/ \E sid \in SessionSids, kind \in SavingKinds, saved \in BOOLEAN :
           SessReturns(sid, kind, saved)
    \/ \E sid \in SessionSids : SessReturns(sid, "log", TRUE)
    \/ \E sid \in SessionSids, interrupted, audio_ok, redis_allowed \in BOOLEAN :
           SessAudioMessage(sid, interrupted, audio_ok, redis_allowed)
    \/ \E sid \in SessionSids, heard, redis_allowed, injected \in BOOLEAN :
           SessTranscriptionReturn(sid, heard, redis_allowed, injected)
    \/ \E sid \in SessionSids, supported \in BOOLEAN : SessStart(sid, supported)
    \/ \E sid \in SessionSids : SessCancelStream(sid)
    \/ \E sid \in SessionSids : SessToggleVoiceMode(sid)
    \/ \E sid \in SessionSids, redis_allowed \in BOOLEAN : SessRequestTTS(sid, redis_allowed)
    \/ \E sid \in SessionSids : SessGetSessionInfo(sid)
    \/ \E sid \in SessionSids, text_ok, names_mode, summarizes \in BOOLEAN :
           SessRealtimeLog(sid, text_ok, names_mode, summarizes)
    \/ \E sid \in SessionSids, requested_mode \in RequestedModes : SessReset(sid, requested_mode)
    \/ \E sid \in SessionSids : SessDisconnect(sid)
    \/ \E d \in SessionClockSteps : SessTick(d)
    \/ \E sid \in SessionSids : RedisExpire(sid)

SpecSessions == InitSessions /\ [][NextSessions]_vars

\* connections that come, send messages and go while time passes
InitSweep == InitConnections(SweepSids)

NextSweep ==
    \/ \E sid \in SweepSids, authenticated \in BOOLEAN : SessConnect(sid, authenticated)
    \/ \E sid \in SweepSids, interrupted, text_ok, redis_allowed, injected \in BOOLEAN :
           SessTextMessage(sid, interrupted, text_ok, redis_allowed, injected)
    \/ \E sid \in SweepSids, redis_allowed, injected \in BOOLEAN :
           SessWake(sid, redis_allowed, injected)
    \/ \E sid \in SweepSids, saved \in BOOLEAN : SessReturns(sid, "turn", saved)
    \/ \E sid \in SweepSids : SessGetSessionInfo(sid)
    \/ \E sid \in SweepSids : SessDisconnect(sid)
    \/ \E d \in SweepClockSteps : SessTick(d)

SpecSweep == InitSweep /\ [][NextSweep]_vars

\* ------------------------------- generate_speech with its emotional tone
\* tones a caller passes: a key of TTS_EMOTIONAL_MODIFIERS with a modifier,
\* the key without one, and a tone that is no key
Tones == {"neutral", "empathetic", "other"}

\* app.py 881-888, 901: TTS_EMOTIONAL_MODIFIERS.get(emotional_tone, '')
TTS_EMOTIONAL_MODIFIERS(emotional_tone) ==
    IF emotional_tone \in {"empathetic", "enthusiastic", "curious", "serious", "encouraging"}
    THEN <<emotional_tone>>
    ELSE <<>>

\* app.py 836-879: the keys of TTS_INSTRUCTIONS
InterviewMode == <<"i", "n", "t", "e", "r", "v", "i", "e", "w">>
HelpdeskMode == <<"h", "e", "l", "p", "d", "e", "s", "k">>
LanguageMode == <<"l", "a", "n", "g", "u", "a", "g", "e">>

\* app.py 900: TTS_INSTRUCTIONS.get(mode, TTS_INSTRUCTIONS['interview']): the
\* instructions of a mode are named by its key, and a mode that is no key gets
\* those of the interview
TTS_INSTRUCTIONS(mode) ==
    IF mode \in {InterviewMode, HelpdeskMode, LanguageMode} THEN mode ELSE InterviewMode

\* app.py 900-903: the instructions of a synthesis request
Instructions(mode, emotional_tone) ==
    <<"instructions">> \o TTS_INSTRUCTIONS(mode) \o TTS_EMOTIONAL_MODIFIERS(emotional_tone)

\* app.py 907-914: the audio the service makes of a request; it is told apart
\* by the input, the voice and the instructions it was made with
Synthesis(text, voice, instructions) == <<"opus", text, voice, instructions>>

\* what a fresh call of generate_speech(text, voice, mode, emotional_tone)
\* returns
FreshSpeech(triple, emotional_tone) ==
    Synthesis(triple[1], triple[2], Instructions(triple[3], emotional_tone))

\* app.py 890-897: generate_speech(text, voice, mode, emotional_tone) looks the
\* triple up; on a hit the decoded payload is returned, on a miss the service
\* is called
ToneLookup(sid, triple, emotional_tone) ==
    /\ speech[sid].pc = "idle"
    /\ Completed(cacheLog) + Cardinality({x \in Sids : speech[x].pc = "calling"}) < MaxToneCalls
    /\ LET cached == GetCachedTTSResult(tts_cache_memory, triple)
           after == GetTTSCacheAfter(tts_cache_memory, KeyOf(triple), clock)
       IN /\ tts_cache_memory' = after
          /\ IF cached # None
             THEN /\ cacheLog' = Logged(cacheLog,
                        [tone |-> emotional_tone] @@
                        CacheCall(cacheLog, "speech_hit", sid, triple, cached, B64Decode(cached),
                                  FALSE, tts_cache_memory, after, Completed(cacheLog), clock))
                  /\ UNCHANGED speech
             ELSE /\ speech' = [speech EXCEPT ![sid] =
                        [pc |-> "calling", triple |-> triple, started |-> Completed(cacheLog),
                         tone |-> emotional_tone]]
                  /\ UNCHANGED cacheLog
    /\ UNCHANGED <<max_size, put_triples, rateVars, errVars, sessVars, histVars, genVars, memory_store, storeRest, redisVars>>

\* app.py 900-923: the service returns the audio made with the instructions of
\* the tone; it is stored under the key of the triple and returned
ToneReturn(sid) ==
    /\ speech[sid].pc = "calling"
    /\ LET triple == speech[sid].triple
           audio_content == FreshSpeech(triple, speech[sid].tone)
           audio_b64 == B64Encode(audio_content)
           after == SetTTSCacheAfter(tts_cache_memory, KeyOf(triple), audio_b64, max_size, clock)
           raised == SetRaises(tts_cache_memory, max_size)
       IN /\ tts_cache_memory' = after
          /\ put_triples' = put_triples \cup {triple}
          /\ cacheLog' = Logged(cacheLog,
                [tone |-> speech[sid].tone] @@
                CacheCall(cacheLog, "speech_miss", sid, triple, audio_b64,
                          IF raised THEN None ELSE audio_content,
                          raised, tts_cache_memory, after, speech[sid].started, clock))
    /\ speech' = [speech EXCEPT ![sid] = IdleSpeech]
    /\ UNCHANGED <<max_size, rateVars, errVars, sessVars, histVars, genVars, memory_store, storeRest, redisVars>>

\* app.py 907-914: the service raises, and so does generate_speech
ToneRaise(sid) ==
    /\ speech[sid].pc = "calling"
    /\ cacheLog' = Logged(cacheLog,
          [tone |-> speech[sid].tone] @@
          CacheCall(cacheLog, "speech_miss", sid, speech[sid].triple, None, None,
                    TRUE, tts_cache_memory, tts_cache_memory, speech[sid].started, clock))
    /\ speech' = [speech EXCEPT ![sid] = IdleSpeech]
    /\ UNCHANGED <<tts_cache_memory, max_size, put_triples, rateVars, errVars, sessVars, histVars, genVars, memory_store,
                   storeRest, redisVars>>

\* the same text and voice in a mode that is a key of TTS_INSTRUCTIONS and in
\* one that is none
ToneTriples ==
    {<< <<"a">>, <<"v">>, <<"m">> >>,
     << <<"a">>, <<"v">>, InterviewMode >>}

NextTone ==
    \/ Tick(1)
    \/ \E sid \in Sids, triple \in ToneTriples, tone \in Tones : ToneLookup(sid, triple, tone)
    \/ \E sid \in Sids : ToneReturn(sid)
    \/ \E sid \in Sids : ToneRaise(sid)

SpecTone == InitCache /\ [][NextTone]_vars

\* ---------------------------------- the Redis-backed rate limiter on its own
Instances == {"i1", "i2"}

\* redis_store.py 292-309: an instance enters _check_rate_limit_redis for the
\* session: it reads the clock and executes the first pipeline (prune both
\* keys, count both keys)
RedisCount(i) ==
    /\ inst[i].pc = "idle"
    /\ inst[i].n < MaxRedisCalls
    /\ LET m == ZRemRangeByScore(redis_minute, clock, clock, MINUTE)
           h == ZRemRangeByScore(redis_hour, clock, clock, HOUR)
       IN /\ redis_minute' = m
          /\ redis_hour' = h
          /\ inst' = [inst EXCEPT ![i] = [pc |-> "counted", now |-> clock,
                                          minute_count |-> Cardinality(m.scores),
                                          hour_count |-> Cardinality(h.scores),
                                          n |-> @.n + 1]]
    /\ UNCHANGED <<admitted, rateVars, errVars, sessVars, histVars, genVars, memory_store, storeRest, cacheVars>>

\* redis_store.py 311-322: the instance tests the counts it read and, when
\* they are below the budgets, executes the second pipeline (add, expire)
RedisDecide(i) ==
    /\ inst[i].pc = "counted"
    /\ LET r == inst[i]
       IN IF RedisAllowed(r.minute_count, r.hour_count, rpm, rph)
          THEN /\ redis_minute' = ZAddExpire(redis_minute, clock, r.now, MINUTE)
               /\ redis_hour' = ZAddExpire(redis_hour, clock, r.now, HOUR)
               /\ admitted' = admitted \cup {<<i, r.n, r.now>>}
          ELSE UNCHANGED <<redis_minute, redis_hour, admitted>>
    /\ inst' = [inst EXCEPT ![i].pc = "idle"]
    /\ UNCHANGED <<rateVars, errVars, sessVars, histVars, genVars, memory_store, storeRest, cacheVars>>

InitRedis ==
    /\ InitGen
    /\ InitErrIdle
    /\ InitHistIdle
    /\ InitSessIdle
    /\ InitSession
    /\ InitStoreIdle
    /\ InitCacheIdle
    /\ clock = 0
    /\ rate_limit_memory = [s \in {} |-> <<>>]
    /\ rpm \in 0 .. MaxRpm
    /\ rph \in (0 .. MaxRph) \cup {RATE_LIMIT_REQUESTS_PER_HOUR}
    /\ calls = <<>>
    /\ ticks = 0
    /\ redis_minute = NoKey
    /\ redis_hour = NoKey
    /\ inst = [i \in Instances |-> IdleInst]
    /\ admitted = {}

NextRedis ==
    \/ \E d \in ClockSteps : Tick(d)
    \/ \E i \in Instances : RedisCount(i)
    \/ \E i \in Instances : RedisDecide(i)

SpecRedis == InitRedis /\ [][NextRedis]_vars

\* ------------------------- the rate limiter with Redis and its fallback
\* the history entry of a check_rate_limit call: the window that gave the
\* answer, the hour key of Redis and the in-memory timestamps as the call found
\* them, and the answer
FallbackCall(now, backend, redis_before, memory_before, ok) ==
    [now |-> now, backend |-> backend, redis_before |-> redis_before,
     memory_before |-> memory_before, ok |-> ok]

\* redis_store.py 279-341: check_rate_limit(sid, rpm, rph) for the session, d
\* seconds after the last call.  drops: Redis stops answering between the two
\* pipelines of _check_rate_limit_redis.
CheckRateLimitFallback(d, drops) ==
    /\ Len(calls) < MaxCalls
    /\ LET now == clock + d
           m == ZRemRangeByScore(redis_minute, now, now, MINUTE)
           h == ZRemRangeByScore(redis_hour, now, now, HOUR)
           redis_ok == RedisAllowed(Cardinality(m.scores), Cardinality(h.scores), rpm, rph)
           ts == Timestamps(rate_limit_memory, TheSid)
           raised == ~redis_up \/ (redis_ok /\ drops)
       IN /\ clock' = now
          /\ IF redis_available /\ ~raised
             THEN /\ redis_minute' = IF redis_ok THEN ZAddExpire(m, now, now, MINUTE) ELSE m
                  /\ redis_hour' = IF redis_ok THEN ZAddExpire(h, now, now, HOUR) ELSE h
                  /\ calls' = Append(calls, FallbackCall(now, "redis", Live(redis_hour, now),
                                                         ts, redis_ok))
                  /\ UNCHANGED <<rate_limit_memory, redis_up>>
             ELSE /\ redis_minute' = IF redis_available /\ redis_up THEN m ELSE redis_minute
                  /\ redis_hour' = IF redis_available /\ redis_up THEN h ELSE redis_hour
                  /\ redis_up' = IF redis_available /\ redis_up THEN FALSE ELSE redis_up
                  /\ rate_limit_memory' = RateMemoryAfter(rate_limit_memory, TheSid, now, rpm, rph)
                  /\ calls' = Append(calls, FallbackCall(now, "memory", Live(redis_hour, now),
                                                         ts, RateAllowed(ts, now, rpm, rph)))
    /\ UNCHANGED <<rpm, rph, ticks, redis_available, redis_sessions, storeLog, written,
                   inst, admitted, genVars, memory_store, cacheVars, errVars, sessVars, histVars>>

\* init_redis (redis_store.py 23-53): Redis is not configured, or it answered
\* the ping
InitFallback ==
    /\ InitGen
    /\ InitErrIdle
    /\ InitHistIdle
    /\ InitSessIdle
    /\ InitSession
    /\ InitCacheIdle
    /\ InitRedisIdle
    /\ redis_available \in BOOLEAN
    /\ redis_up = redis_available
    /\ redis_sessions = [s \in {} |-> None]
    /\ storeLog = <<>>
    /\ written = [s \in {} |-> None]
    /\ clock = 0
    /\ rate_limit_memory = [s \in {} |-> <<>>]
    /\ rpm \in 0 .. MaxRpm
    /\ rph \in (0 .. MaxRph) \cup {RATE_LIMIT_REQUESTS_PER_HOUR}
    /\ calls = <<>>
    /\ ticks = 0

NextFallback ==
    \/ \E d \in ClockSteps, drops \in BOOLEAN : CheckRateLimitFallback(d, drops)
    \/ RedisFlip

SpecFallback == InitFallback /\ [][NextFallback]_vars

InitRate ==
    /\ InitGen
    /\ InitSession
    /\ InitAux
    /\ clock = 0
    /\ rate_limit_memory = [s \in {} |-> <<>>]
    /\ rpm \in 0 .. MaxRpm
    /\ rph \in (0 .. MaxRph) \cup {RATE_LIMIT_REQUESTS_PER_HOUR}
    /\ calls = <<>>
    /\ ticks = 0

NextRate ==
    \/ \E d \in ClockSteps : Tick(d)
    \/ \E sid \in Sids : CheckRateLimit(sid)

SpecRate == InitRate /\ [][NextRate]_vars

\* ======================================================== properties
OfType(evs, types) == SelectSeq(evs, LAMBDA e : e.type \in types)
TextChunks(t) == OfType(emitted[t], {"text_chunk"})
AudioChunks(t) == OfType(emitted[t], {"audio_chunk"})
Completes(t) == OfType(emitted[t], {"stream_complete"})
Output(evs) == OfType(evs, {"text_chunk", "audio_chunk", "stream_complete"})
TextsOf(evs) == [i \in 1 .. Len(evs) |-> evs[i].text]

\* the generation of turn t has registered its token (it streams or has ended)
Started(t) == Streaming(t) \/ gen[t].outcome \in {"completed", "cancelled", "failed"}
MessageTurn(t) == gen[t].kind \in {"text", "audio"}

\* the stream of turn t ended normally and its token is not cancelled
EndedNormally(t) ==
    /\ gen[t].outcome = "completed"
    /\ ~cancelled[t]

\* number of complete sentences of a text: runs of text ended by '.', '!' or '?'
NumSentences(text) ==
    Cardinality({i \in 2 .. Len(text) :
                    text[i] \in sentence_enders /\ text[i - 1] \notin sentence_enders})

\* ---- C1
\* C1: at most one generation of the session is active (registered, not exited,
\* flag not set) in every reachable state.
C1_AtMostOneActive ==
    Cardinality({t \in Turns : Streaming(t) /\ ~cancelled[t]}) <= 1

\* ---- C2
\* C2: once the generation of a new message turn has started, a generation of an
\* earlier message turn that was streaming when the new turn was issued emits
\* no further audio_chunk or stream_complete.
C2_OldGenerationSilent ==
    [][\A n \in Turns : \A o \in overlapped[n] :
          (MessageTurn(n) /\ MessageTurn(o) /\ Started(n)) =>
              OfType(emitted'[o], {"audio_chunk", "stream_complete"})
                  = OfType(emitted[o], {"audio_chunk", "stream_complete"})]_vars

\* ---- C3
\* C3: from the moment the flag of a generation's token is set, the generation
\* emits no further text_chunk, audio_chunk or stream_complete.
C3_NoOutputAfterCancel ==
    [][\A t \in Turns : cancelled[t] => Output(emitted'[t]) = Output(emitted[t])]_vars

\* C3 witness: the flag was set while the synthesis call of the last chunk was
\* in flight; the generation has ended and that chunk has no audio.
C3_Witness ==
    /\ gen[1].outcome = "cancelled"
    /\ Len(TextChunks(1)) = 2
    /\ Len(AudioChunks(1)) = 1
    /\ emitted[1][Len(emitted[1])].type = "text_chunk"

\* ---- C4
\* C4: a cancel_stream, interrupting message, reset or disconnect handled while
\* a generation streams sets that generation's flag.
C4_CancelReachesStreaming == missedCancel = {}

\* ---- C5
\* C5: for a turn that ended normally, the texts of its text_chunk events
\* concatenated equal the token fragments concatenated, character for
\* character.
C5_ChunksEqualInput ==
    \A t \in Turns : EndedNormally(t) =>
        Flatten(TextsOf(TextChunks(t))) = Flatten(gen[t].script)

\* ---- C6
\* the text ends a sentence: after trailing whitespace, an ender at a position
\* beyond MIN_BOUNDARY_LEN
EndsSentence(x) ==
    \E n \in (MIN_BOUNDARY_LEN + 1) .. Len(x) :
        /\ x[n] \in sentence_enders
        /\ \A j \in (n + 1) .. Len(x) : x[j] \in Whitespace

\* the fragments of a script up to the n-th, concatenated
Prefix(script, n) == Flatten(SubSeq(script, 1, n))

\* the chunk whose synthesis call is in flight inside the loop
ChunkInLoop(t) == emitted[t][Len(emitted[t])]

\* C6 as claimed: the first chunk released holds exactly one complete sentence
\* and every later chunk released before the end of the stream exactly
\* STREAMING_SUBSEQUENT_CHUNK_SENTENCES.
C6_ExactSentenceCount ==
    \A t \in Turns : gen[t].pc = "tts" =>
        NumSentences(ChunkInLoop(t).text) =
            IF ChunkInLoop(t).index = 0 THEN STREAMING_FIRST_CHUNK_SENTENCES
            ELSE STREAMING_SUBSEQUENT_CHUNK_SENTENCES

\* C6 amended: every chunk released before the end of the stream ends with
\* '.', '!' or '?'; the first is the stripped text up to the first fragment
\* after which the text received so far ends a sentence beyond its 10th
\* character; every later one is released when that test on the buffer has
\* succeeded STREAMING_SUBSEQUENT_CHUNK_SENTENCES times since the last release.
C6_ReleasedAtBoundaries ==
    \A t \in Turns : gen[t].pc = "tts" =>
        LET e == ChunkInLoop(t)
            r == gen[t]
        IN /\ e.type = "text_chunk"
           /\ e.text # <<>>
           /\ e.text[Len(e.text)] \in sentence_enders
           /\ e.index = 0 =>
                 /\ EndsSentence(Prefix(r.script, r.pos))
                 /\ \A k \in 0 .. (r.pos - 1) : ~EndsSentence(Prefix(r.script, k))
                 /\ e.text = Strip(Prefix(r.script, r.pos))
                 /\ r.sentence_count_in_buffer = STREAMING_FIRST_CHUNK_SENTENCES
           /\ e.index > 0 =>
                 /\ EndsSentence(r.buffer)
                 /\ r.sentence_count_in_buffer = STREAMING_SUBSEQUENT_CHUNK_SENTENCES

\* C6 witness: the second chunk of a turn is being synthesised inside the loop.
C6_Witness ==
    /\ gen[1].pc = "tts"
    /\ ChunkInLoop(1).index = 1
    /\ NumSentences(ChunkInLoop(1).text) = 1

\* ---- C7
\* C7: within one generation the text_chunk indices count up from 0, an
\* audio_chunk directly follows the text_chunk of its index, and
\* stream_complete is the last event.
C7_OutputOrdered ==
    \A t \in Turns :
        LET out == Output(emitted[t])
            texts == TextChunks(t)
        IN /\ \A k \in 1 .. Len(texts) : texts[k].index = k - 1
           /\ \A p \in 1 .. Len(out) :
                 /\ out[p].type = "audio_chunk" =>
                       /\ p > 1
                       /\ out[p - 1].type = "text_chunk"
                       /\ out[p - 1].index = out[p].index
                 /\ out[p].type = "stream_complete" => p = Len(out)
                 /\ (p < Len(out) /\ out[p + 1].type # "stream_complete") =>
                       out[p].index <= out[p + 1].index

\* C7 witness: a completed generation of two chunks, both with audio.
C7_Witness ==
    /\ EndedNormally(1)
    /\ Len(TextChunks(1)) = 2
    /\ Len(AudioChunks(1)) = 2
    /\ Len(Completes(1)) = 1

\* ---- C8
\* C8: a turn whose stream ended normally and whose token is not cancelled has
\* emitted exactly one stream_complete, with full_text the concatenation of the
\* fragments received and total_chunks the number of text_chunk events.
C8_OneStreamComplete ==
    \A t \in Turns : EndedNormally(t) =>
        /\ Len(Completes(t)) = 1
        /\ Completes(t)[1].text = Flatten(gen[t].script)
        /\ Completes(t)[1].index = Len(TextChunks(t))

\* C8 witness: a completed turn with two chunks, one of which failed synthesis.
C8_Witness ==
    /\ EndedNormally(1)
    /\ Len(TextChunks(1)) = 2
    /\ Len(AudioChunks(1)) = 1

\* ---- C9
\* the admitted calls of the session of the i-th call made less than MINUTE
\* before it
AdmittedInWindow(i) ==
    {j \in 1 .. (i - 1) :
        /\ calls[j].sid = calls[i].sid
        /\ calls[j].ok
        /\ calls[i].now - calls[j].now < MINUTE}

\* the calls made for one session, in order
CallsOf(sid) == SelectSeq(calls, LAMBDA c : c.sid = sid)

\* C9: with a per-minute budget of at least 1 and an hourly budget that does
\* not bind, a call is refused when the budget of calls was admitted in the 60
\* seconds before it and admitted otherwise, so that a call made once 60
\* seconds have passed is admitted again; with a budget of 3, four calls in a
\* row give True, True, True, False.
C9_MinuteBudget ==
    (rpm >= 1 /\ rph = RATE_LIMIT_REQUESTS_PER_HOUR) =>
        /\ \A i \in 1 .. Len(calls) :
              /\ Cardinality(AdmittedInWindow(i)) >= rpm => ~calls[i].ok
              /\ Cardinality(AdmittedInWindow(i)) < rpm => calls[i].ok
              /\ (\A j \in 1 .. (i - 1) :
                      calls[j].sid = calls[i].sid => calls[i].now - calls[j].now >= MINUTE)
                  => calls[i].ok
        /\ \A sid \in Sids :
              LET mine == CallsOf(sid)
              IN (rpm = 3 /\ Len(mine) >= 4 /\ mine[4].now - mine[1].now < MINUTE) =>
                     <<mine[1].ok, mine[2].ok, mine[3].ok, mine[4].ok>>
                         = <<TRUE, TRUE, TRUE, FALSE>>

\* C9 witness: a session is admitted, refused within the minute and admitted
\* again 60 seconds after the admitted call.
C9_Witness ==
    /\ rpm >= 1
    /\ rph = RATE_LIMIT_REQUESTS_PER_HOUR
    /\ \E i, j, k \in 1 .. Len(calls) :
          /\ i < j /\ j < k
          /\ calls[i].sid = calls[j].sid /\ calls[j].sid = calls[k].sid
          /\ calls[i].ok /\ ~calls[j].ok /\ calls[k].ok
          /\ calls[k].now - calls[i].now = MINUTE

\* ---- C10
\* how many of the timestamps are younger than age at time now
CountYounger(ts, now, age) == Cardinality({n \in 1 .. Len(ts) : now - ts[n] < age})

\* C10: a call returns True exactly when fewer than rpm recorded timestamps
\* are younger than 60 s and fewer than rph younger than 3600 s; a True call
\* leaves the timestamps younger than an hour followed by now, a False call
\* leaves only the timestamps younger than an hour; the tracker of the session
\* holds what its last call left.
C10_MemoryLimiter ==
    /\ \A i \in 1 .. Len(calls) :
          LET c == calls[i]
              kept == SelectSeq(c.before, LAMBDA x : c.now - x < HOUR)
          IN /\ c.ok <=> /\ CountYounger(c.before, c.now, MINUTE) < rpm
                         /\ CountYounger(c.before, c.now, HOUR) < rph
             /\ c.ok => c.after = kept \o <<c.now>>
             /\ ~c.ok => c.after = kept
    /\ \A sid \in Sids :
          LET mine == CallsOf(sid)
          IN /\ Len(mine) = 0 => sid \notin DOMAIN rate_limit_memory
             /\ Len(mine) > 0 =>
                   /\ sid \in DOMAIN rate_limit_memory
                   /\ rate_limit_memory[sid] = mine[Len(mine)].after
             /\ \A n \in 2 .. Len(mine) : mine[n].before = mine[n - 1].after

\* C10 witness: a refused call that dropped a timestamp an hour old and kept
\* the younger one, after two admitted calls.
C10_Witness ==
    \E i \in 1 .. Len(calls) :
        /\ ~calls[i].ok
        /\ Len(calls[i].before) = 2
        /\ Len(calls[i].after) = 1
        /\ rate_limit_memory[calls[i].sid] = calls[i].after

\* ---- C17
\* C17: once the disconnect of the session has been handled, the session store
\* holds no record for its id, in every later state.
C17_NoRecordAfterDisconnect == ~connected => TheSid \notin DOMAIN memory_store

\* ---- C11
\* the admitted calls of the Redis-backed limiter younger than MINUTE
AdmittedYoung == {a \in admitted : clock - a[3] < MINUTE}

\* C11: the window of the session never holds more than rpm timestamps younger
\* than 60 s, and never more than rpm calls younger than 60 s were admitted.
C11_WindowWithinBudget ==
    /\ Cardinality({x \in Live(redis_minute, clock) : clock - x < MINUTE}) <= rpm
    /\ Cardinality(AdmittedYoung) <= rpm

\* ---- C12
\* C12: a get of a triple that was never put misses, whatever other triples
\* were put; a get directly after a put of the same triple returns the payload
\* that was put.
C12_CacheKeyedByTriple ==
    LET n == Len(cacheLog)
    IN (n >= 1 /\ cacheLog[n].op = "get") =>
          /\ cacheLog[n].triple \notin put_triples => cacheLog[n].result = None
          /\ (/\ n > 1
              /\ cacheLog[n - 1].op = "put"
              /\ ~cacheLog[n - 1].raised
              /\ cacheLog[n - 1].triple = cacheLog[n].triple)
              => /\ cacheLog[n].result # None
                 /\ cacheLog[n].result = cacheLog[n - 1].payload

\* ---- C13
\* C13: the in-memory cache never holds more than max_size entries; a put that
\* evicts removes exactly one entry, one whose last_used no other entry is
\* below, and evicts none below capacity; a get that hits sets last_used of
\* its entry to the time of the get and removes nothing.
C13_BoundedLRU ==
    /\ Len(tts_cache_memory) <= max_size
    /\ \A n \in 1 .. Len(cacheLog) :
          LET e == cacheLog[n]
              gone == {i \in 1 .. Len(e.before) :
                          \A j \in 1 .. Len(e.after) : e.after[j].key # e.before[i].key}
          IN /\ Len(e.after) <= max_size
             /\ e.op = "put" =>
                   /\ \A i \in gone : \A j \in 1 .. Len(e.before) :
                         e.before[i].last_used <= e.before[j].last_used
                   /\ Cardinality(gone) <= 1
                   /\ (Len(e.before) < max_size) => gone = {}
             /\ (e.op = "get" /\ e.result # None) =>
                   \E j \in 1 .. Len(e.after) :
                       /\ e.after[j].key = KeyOf(e.triple)
                       /\ e.after[j].last_used = e.now
             /\ e.op = "get" => gone = {}

\* C13 witness: a put into a full cache has evicted the entry inserted second,
\* the first one having been refreshed by a get.
C13_Witness ==
    /\ cacheLog # <<>>
    /\ LET e == cacheLog[Len(cacheLog)]
       IN /\ e.op = "put"
          /\ Len(e.before) = 2
          /\ Len(e.after) = 2
          /\ e.after[1].key = e.before[1].key
          /\ e.after[2].key # e.before[2].key
          /\ e.before[1].last_used > e.before[2].last_used

\* ---- C14
\* C14: the first request of all is a miss that calls the service; a request
\* made by another session for the same triple after a request has returned,
\* with no call in between, is a hit that does not call the service and
\* returns the same audio.
C14_SecondSessionHits ==
    /\ \A n \in 1 .. Len(cacheLog) :
          (cacheLog[n].seq = 1 /\ cacheLog[n].op \in {"speech_hit", "speech_miss"})
              => cacheLog[n].op = "speech_miss"
    /\ Len(cacheLog) = 2 =>
          LET i == cacheLog[1]
              j == cacheLog[2]
          IN (/\ i.op \in {"speech_hit", "speech_miss"}
              /\ j.op \in {"speech_hit", "speech_miss"}
              /\ i.sid # j.sid
              /\ i.triple = j.triple
              /\ ~i.raised
              /\ j.started >= i.seq)
              => /\ j.op = "speech_hit"
                 /\ j.result = i.result
                 /\ j.result \in Contents

\* ---- C15
\* C15: a get_session of an id returns the data of the last set_session of that
\* id when no delete of the id came after that set, whatever Redis did.
C15_ReadYourWrite ==
    \A n \in 1 .. Len(storeLog) :
        (storeLog[n].op = "get" /\ storeLog[n].sid \in DOMAIN written)
            => storeLog[n].result = written[storeLog[n].sid]

\* ---- C16
\* C16: with Redis configured and unreachable, a call of the store returns what
\* the in-process map alone gives and leaves the map as the same call on a
\* plain map would.
C16_FailOpen ==
    \A n \in 1 .. Len(storeLog) :
        LET e == storeLog[n]
            m == e.mem_before
        IN (e.available /\ ~e.up) =>
              /\ e.op = "get" =>
                    /\ e.result = (IF e.sid \in DOMAIN m THEN m[e.sid] ELSE None)
                    /\ e.mem_after = m
              /\ e.op = "set" =>
                    /\ DOMAIN e.mem_after = DOMAIN m \cup {e.sid}
                    /\ e.mem_after[e.sid] = e.data
                    /\ \A s \in DOMAIN m \ {e.sid} : e.mem_after[s] = m[s]
              /\ e.op = "delete" =>
                    /\ DOMAIN e.mem_after = DOMAIN m \ {e.sid}
                    /\ \A s \in DOMAIN e.mem_after : e.mem_after[s] = m[s]
              /\ e.op = "exists" =>
                    /\ e.result = (e.sid \in DOMAIN m)
                    /\ e.mem_after = m
              /\ e.op = "count" =>
                    /\ e.result = Cardinality(DOMAIN m)
                    /\ e.mem_after = m

\* C16 witness: with Redis unreachable a get returned a record that was set
\* while it was unreachable, and Redis holds another record.
C16_Witness ==
    /\ storeLog # <<>>
    /\ storeLog[1].op = "get"
    /\ storeLog[1].available
    /\ ~storeLog[1].up
    /\ storeLog[1].result \in SessionData
    /\ redis_sessions # [s \in {} |-> None]

\* ---- C20
\* C20: what an error outcome sends to the client is fixed by the place it comes
\* from: it holds no text of the exception or of the upstream body, and two
\* outcomes of the same place carry the same content whatever caused them.
C20_GenericErrors ==
    /\ \A n \in 1 .. Len(delivered) :
          \A k \in 1 .. Len(delivered[n].content) :
              delivered[n].content[k] \notin ExcTexts
    /\ \A n, k \in 1 .. Len(delivered) :
          delivered[n].source = delivered[k].source
              => delivered[n].content = delivered[k].content

\* ---- C18
StatusEvents(t) == OfType(emitted[t], {"status"})

\* a synthesis call of turn t, which is not cancelled, has raised: the flush of
\* a chunk is over and the chunk has its text but no audio
SynthesisRaised(t) ==
    /\ ~cancelled[t]
    /\ \E n \in 1 .. Len(TextChunks(t)) :
          /\ gen[t].pc = "done" \/ TextChunks(t)[n].index < gen[t].chunk_index
          /\ \A k \in 1 .. Len(AudioChunks(t)) :
                AudioChunks(t)[k].index # TextChunks(t)[n].index

\* C18: a turn in which a synthesis call raised ends failed, with a status
\* and without stream_complete.
C18_SynthesisErrorFailsTurn ==
    \A t \in Turns : (gen[t].pc = "done" /\ SynthesisRaised(t)) =>
        /\ gen[t].outcome = "failed"
        /\ StatusEvents(t) # <<>>
        /\ Completes(t) = <<>>

\* ---- C19
\* C19: the step in which the model stream of a message turn raises leaves the
\* session record in place, adds only the status to the events of the turn and
\* nothing to the other turns, empties the registry entry and releases the lock.
C19_FailureKeepsSession ==
    [][\A t \in Turns :
          (gen[t].outcome # "failed" /\ gen'[t].outcome = "failed") =>
              /\ memory_store' = memory_store
              /\ TheSid \in DOMAIN memory_store'
              /\ emitted' = [emitted EXCEPT ![t] = @ \o <<Event("status", <<>>, 0)>>]
              /\ active_generations' = NoToken
              /\ MessageTurn(t) => ~processing_lock'
              /\ connected']_vars

\* C19 witness: the first turn failed after a chunk was emitted, the chunk is
\* still there, and the next turn of the session has streamed to completion.
C19_Witness ==
    /\ gen[1].outcome = "failed"
    /\ MessageTurn(1)
    /\ TextChunks(1) # <<>>
    /\ gen[2].outcome = "completed"
    /\ MessageTurn(2)
    /\ Len(Completes(2)) = 1
    /\ gen[3].pc = "idle"
    /\ ~processing_lock
    /\ active_generations = NoToken

\* ---- C22
\* C22: the exit of a generation leaves the registry entry alone unless the
\* entry is the token of that generation, and a generation that streams and is
\* not cancelled is the one registered.
C22_ExitRemovesOwnToken ==
    [][\A t \in Turns :
          /\ (Streaming(t) /\ ~Streaming(t)' /\ active_generations # t)
                => active_generations' = active_generations
          /\ (Streaming(t) /\ ~cancelled[t] /\ Streaming(t)' /\ ~cancelled'[t]
                /\ active_generations = t)
                => active_generations' = t]_vars

\* ---- C23
\* a process_and_respond call of turn t holds the lock: it is between taking
\* the lock and its finally block
HoldsLock(t) == MessageTurn(t) /\ (Streaming(t) \/ gen[t].pc \in {"chat", "summarize"})

\* C23: the lock of the session is set exactly while a process_and_respond call
\* of the session is between taking it and its finally block.
C23_LockHeldWhileRunning == processing_lock <=> \E t \in Turns : HoldsLock(t)

\* ---- C25
\* the text holds none of '.', '!' and '?'
NoEnder(text) == \A n \in 1 .. Len(text) : text[n] \notin sentence_enders

\* x ends with y
IsSuffix(y, x) == Len(y) <= Len(x) /\ SubSeq(x, Len(x) - Len(y) + 1, Len(x)) = y

\* C25: a turn that ended normally on a stream with text and without
\* '.', '!' or '?' has emitted exactly one chunk, whose text is all the text of
\* the stream.
C25_RunOnChunkIsAllText ==
    \A t \in Turns :
        (EndedNormally(t) /\ Flatten(gen[t].script) # <<>> /\ NoEnder(Flatten(gen[t].script))) =>
            /\ Len(TextChunks(t)) = 1
            /\ TextChunks(t)[1].text = Flatten(gen[t].script)

\* ---- C26
\* C26: with a per-minute or per-hour budget of 0 no call is admitted, and with
\* both budgets at least 1 a call that finds nothing recorded in the window
\* that answers it, Redis or in-memory, is admitted.
C26_FirstCallAndZeroBudget ==
    \A i \in 1 .. Len(calls) :
        LET c == calls[i]
        IN /\ (rpm = 0 \/ rph = 0) => ~c.ok
           /\ (rpm >= 1 /\ rph >= 1 /\ c.backend = "redis" /\ c.redis_before = {}) => c.ok
           /\ (rpm >= 1 /\ rph >= 1 /\ c.backend = "memory" /\ c.memory_before = <<>>) => c.ok

\* C26 witness: the first call of the session was answered by Redis and
\* admitted, and a later call that found the in-memory window empty was
\* answered by it and admitted.
C26_Witness ==
    /\ Len(calls) >= 2
    /\ calls[1].backend = "redis" /\ calls[1].redis_before = {} /\ calls[1].ok
    /\ \E i \in 2 .. Len(calls) :
          calls[i].backend = "memory" /\ calls[i].memory_before = <<>> /\ calls[i].ok

\* ---- C30
\* the calls admitted less than MINUTE before the i-th call, by either window
AdmittedBefore(i) ==
    {j \in 1 .. (i - 1) : calls[j].ok /\ calls[i].now - calls[j].now < MINUTE}

\* C30: no call is admitted when rpm calls of the session were admitted in the
\* 60 seconds before it, whichever window answered them.
C30_BudgetAcrossBackends ==
    \A i \in 1 .. Len(calls) :
        calls[i].ok => Cardinality(AdmittedBefore(i)) < rpm

\* ---- C29
\* C29: when every message of the session that has arrived was admitted, the
\* rate-limit window of the session holds one timestamp for each of them.
C29_OneTimestampPerTurn ==
    (\A t \in Turns : gen[t].pc # "idle" => (MessageTurn(t) /\ Started(t))) =>
        Len(Timestamps(rate_limit_memory, TheSid))
            = Cardinality({t \in Turns : Started(t)})

\* ---- C24
\* a message was turned away: refused by the rate limiter or found invalid
TurnedAway(t) == MessageTurn(t) /\ gen[t].outcome \in {"rejected", "dropped"}

\* C24: when the second message of the session was turned away and no third one
\* has arrived, the generation of the first message is not cancelled.
C24_RejectedDoesNotCancel ==
    (TurnedAway(2) /\ gen[3].pc = "idle") => ~cancelled[1]

\* ---- C27
\* C27: a message that was turned away has exactly one status event.
C27_OneStatusPerRejection ==
    \A t \in Turns : TurnedAway(t) => Len(StatusEvents(t)) = 1

\* ---- C21
\* the messages the handlers append, and the sequences of at most three of
\* them (the message of the user, an instruction of the helpdesk, the answer;
\* or the system prompt a message without mode sets, before the first two)
TurnMessages ==
    {UserMsg(t) : t \in HistEvents} \cup {AssistantMsg(t) : t \in HistEvents}
        \cup {SmallTalkMsg, CheckinMsg}
        \cup {SystemPrompt(mode) : mode \in StartModes}
Appended == {<<>>} \cup {<<x>> : x \in TurnMessages}
                \cup {<<x, y>> : x \in TurnMessages, y \in TurnMessages}
                \cup {<<x, y, z>> : x \in TurnMessages, y \in TurnMessages, z \in TurnMessages}

\* conv['mode'] of the record of the session
StoredMode == IF record_id = NoId THEN None ELSE dicts[record_id].mode

\* the step is one of an event that starts the conversation anew: disconnect,
\* reset, a step of the handler of a start_* event, or a step that sets the
\* mode of the record
StartsAnew ==
    \/ connected /\ ~connected'
    \/ \E t \in HistEvents : conv'[t].kind \in {"reset", "start"} /\ conv'[t] # conv[t]
    \/ StoredMode' # StoredMode

\* C21: a step of a turn changes the stored history only by appending new
\* messages at its end, or by replacing it with a system message followed by
\* the last messages of the history so extended.
C21_AppendOrCompress ==
    [][\/ StartsAnew
       \/ \E added \in Appended :
          /\ \A i \in 1 .. Len(added), j \in 1 .. Len(messages) :
                added[i][1] # "system" => added[i] # messages[j]
          /\ \/ messages' = messages \o added
             \/ /\ Len(messages') = compression_threshold
                /\ Head(messages')[1] = "system"
                /\ IsSuffix(Tail(messages'), Tail(messages \o added))]_vars

\* ---- C28
\* the calls a handler makes before process_and_respond is entered
BeforeProcessAndRespond == {"transcribe_audio"}

\* C28: a turn that process_and_respond rejected has called neither the model
\* nor the synthesis service nor the summarizer, has registered no token and
\* is not the turn the registry names, has emitted one status, and its
\* message is in no conv: neither in the stored history nor in the dict of a
\* handler nor in the history a handler has compressed.
C28_RejectedTurnDoesNothing ==
    \A t \in HistEvents : conv[t].outcome = "rejected" =>
        /\ \A n \in 1 .. Len(conv[t].calls) : conv[t].calls[n] \in BeforeProcessAndRespond
        /\ active_generations # t
        /\ conv[t].status = 1
        /\ \A n \in 1 .. Len(messages) : messages[n] # UserMsg(t)
        /\ \A i \in DOMAIN dicts :
               \A n \in 1 .. Len(dicts[i].messages) : dicts[i].messages[n] # UserMsg(t)
        /\ \A u \in HistEvents :
               \A n \in 1 .. Len(conv[u].seen) : conv[u].seen[n] # UserMsg(t)

\* C28 witness: the first message was answered in text mode, by chat_with_gpt
\* and without a token; the second, an audio message, was transcribed and then
\* rejected by process_and_respond; the history holds the messages of the
\* first only.
C28_Witness ==
    /\ conv[1].kind = "text"
    /\ conv[1].outcome = "completed"
    /\ conv[1].calls = <<"chat_with_gpt">>
    /\ conv[2].kind = "audio"
    /\ conv[2].outcome = "rejected"
    /\ conv[2].calls = <<"transcribe_audio">>
    /\ ~redis_history
    /\ messages = <<INTERVIEW_SYSTEM_PROMPT, UserMsg(1), AssistantMsg(1)>>

\* ---- C34
\* C34: the flag of a token that is set stays set in every step, whatever
\* cancels and registrations of new tokens follow.
C34_FlagMonotone ==
    [][\A t \in Turns : cancelled[t] => cancelled'[t]]_vars

\* C34 witness: the generation of the first turn streams with its flag set
\* while the token of the second turn is registered, unflagged, and a third
\* message has been handled.
C34_Witness ==
    /\ Streaming(1)
    /\ cancelled[1]
    /\ active_generations = 2
    /\ ~cancelled[2]
    /\ gen[3].pc # "idle"

\* ---- C35
\* C35: the registry does not hold the token of a generation whose loop has
\* been left, and the step in which a generation is left ends with no entry
\* for the session.
C35_TokenDiscardedAtExit ==
    [][\A t \in Turns :
          /\ gen'[t].pc \in {"summarize", "done"} => active_generations' # t
          /\ (Streaming(t) /\ ~Streaming(t)') => active_generations' = NoToken]_vars

\* C35 witness: three generations are over, one completed, one cancelled and
\* one failed, and the registry is empty.
C35_Witness ==
    /\ \E t \in Turns : gen[t].outcome = "completed"
    /\ \E t \in Turns : gen[t].outcome = "cancelled"
    /\ \E t \in Turns : gen[t].outcome = "failed"
    /\ active_generations = NoToken

\* ---- C39
\* C39: a put of a key the cache already holds leaves every other entry of
\* the cache in place, also when the cache is full.
C39_OverwriteEvictsNothing ==
    \A n \in 1 .. Len(cacheLog) :
        LET e == cacheLog[n]
        IN (e.op = "put" /\ ~e.raised /\ HasKey(e.before, KeyOf(e.triple))) =>
              \A i \in 1 .. Len(e.before) :
                  e.before[i].key # KeyOf(e.triple) => HasKey(e.after, e.before[i].key)

\* ---- C36
\* turn t saves its conversation in this step
SavesTurn(t) ==
    /\ conv[t].pc # "done"
    /\ conv'[t].pc = "done"
    /\ conv'[t].outcome = "completed"

\* the saved history is within the threshold; when the history of the turn
\* was longer, exactly threshold messages are saved, the last threshold - 1 of
\* them the last messages of that history, in their order
KeepsRecent(t) ==
    LET pre == conv'[t].seen
        T == compression_threshold
    IN /\ Len(messages') <= T
       /\ Len(pre) > T =>
             /\ Len(messages') = T
             /\ \A i \in 2 .. T : messages'[i] = pre[Len(pre) - T + i]

\* the size and the order of the saved history alone
SavedWithinThreshold ==
    [][\A t \in HistEvents : SavesTurn(t) => KeepsRecent(t)]_vars

\* the first message of a history that was compressed is a system message:
\* the one of the history of the turn with a summary added
HeadExtended(t) ==
    LET pre == conv'[t].seen
    IN Len(pre) > compression_threshold =>
          /\ messages'[1][1] = "system"
          /\ Content(pre[1]) \subseteq Content(messages'[1])
          /\ Content(messages'[1]) # Content(pre[1])

\* C36: a turn that ends with more than threshold messages saves exactly
\* threshold messages, the system message extended with the summary followed
\* by the last threshold - 1 messages in their order; every saved history is
\* within the threshold.
C36_CompressionLeavesThreshold ==
    [][\A t \in HistEvents : SavesTurn(t) => (KeepsRecent(t) /\ HeadExtended(t))]_vars

\* ---- C37
\* the user and assistant messages of the history of the turn that the saved
\* history no longer holds
Removed(t) ==
    {conv'[t].seen[i] : i \in {j \in 2 .. Len(conv'[t].seen) :
                                  conv'[t].seen[j][1] \in {"user", "assistant"}}}
        \ {messages'[i] : i \in 1 .. Len(messages')}

\* C37: the messages a compression removes are among those the summaries of
\* the system message of the saved history were made from.
C37_RemovedAreSummarised ==
    [][\A t \in HistEvents : SavesTurn(t) => Removed(t) \subseteq Content(messages'[1])]_vars

\* ---- C38
\* C38: the audio a call of generate_speech returns, from the cache or from
\* the service, is the audio made with the instructions of the tone of that
\* call.
C38_HitMatchesFreshCall ==
    \A n \in 1 .. Len(cacheLog) :
        LET e == cacheLog[n]
        IN (e.op \in {"speech_hit", "speech_miss"} /\ ~e.raised) =>
              e.result = FreshSpeech(e.triple, e.tone)

\* ---- C31
\* the socket ids the store holds a record of, in _memory_store or in Redis
StoredSids == DOMAIN memory_store \cup DOMAIN redis_sessions

\* C31: every socket id with an entry in _rate_limit_memory has a session
\* record.
C31_NoWindowWithoutSession ==
    \A sid \in DOMAIN rate_limit_memory : sid \in StoredSids

\* ---- C32
\* the sessions a call of cleanup_stale_sessions found stored, and those of
\* them whose last_activity was more than timeout before the call
StoredBefore(e) == DOMAIN e.mem_before \cup DOMAIN e.redis_before
RecordBefore(e, sid) ==
    IF sid \in DOMAIN e.mem_before THEN e.mem_before[sid] ELSE e.redis_before[sid]
StaleBefore(e) ==
    {sid \in StoredBefore(e) : e.now - RecordBefore(e, sid).last_activity > e.timeout}

\* the call removed exactly the given sessions from the given store
RemovedExactly(before, after, gone) ==
    /\ DOMAIN after = DOMAIN before \ gone
    /\ \A sid \in DOMAIN after : after[sid] = before[sid]

\* C32 as claimed: whichever backend is in use, a sweep removes exactly the
\* stored sessions that are stale, leaves the others as they were and returns
\* the number removed.
C32_SweepRemovesStale ==
    \A n \in 1 .. Len(storeLog) :
        LET e == storeLog[n]
        IN e.op = "cleanup" =>
              /\ RemovedExactly(e.mem_before, e.mem_after, StaleBefore(e))
              /\ RemovedExactly(e.redis_before, e.redis_after, StaleBefore(e))
              /\ e.result = Cardinality(StaleBefore(e))

\* C32 amended: without Redis a sweep removes exactly the sessions of
\* _memory_store that are stale, leaves the others as they were and returns
\* the number removed; with Redis it removes nothing and returns 0.
C32_SweepRemovesStaleInMemory ==
    \A n \in 1 .. Len(storeLog) :
        LET e == storeLog[n]
        IN e.op = "cleanup" =>
              IF e.available
              THEN /\ e.mem_after = e.mem_before
                   /\ e.redis_after = e.redis_before
                   /\ e.result = 0
              ELSE /\ RemovedExactly(e.mem_before, e.mem_after, StaleBefore(e))
                   /\ e.result = Cardinality(StaleBefore(e))

\* C32 witness: a sweep without Redis found two sessions, one of them exactly
\* timeout old, removed the other one and returned 1.
C32_Witness ==
    /\ storeLog # <<>>
    /\ LET e == storeLog[1]
       IN /\ e.op = "cleanup"
          /\ ~e.available
          /\ Cardinality(DOMAIN e.mem_before) = 2
          /\ \E sid \in DOMAIN e.mem_before : e.now - e.mem_before[sid].last_activity = e.timeout
          /\ Cardinality(DOMAIN e.mem_after) = 1
          /\ e.result = 1

\* ---- C33
\* C33: the store never holds more than MAX_SESSIONS sessions.
C33_SessionsWithinLimit ==
    Cardinality(StoredSids) <= max_sessions

\* ---- C40
\* C40: a generation that streams is eventually over, completed, cancelled
\* or failed, with its token out of the registry and the lock released.
C40_StreamingEnds ==
    \A t \in Turns :
        Streaming(t) ~>
            (/\ gen[t].pc = "done"
             /\ gen[t].outcome \in {"completed", "cancelled", "failed"}
             /\ active_generations # t
             /\ ~processing_lock)

====
